---- MODULE Spec2Model ----
(***************************************************************************)
(* TC33 capture-file parser: the schema registry (tc33_definitions.py),    *)
(* the field decoder TCRDefinition.get_field_value and the single-pass     *)
(* transaction assembler parse_tc33_file (services.py).                    *)
(*                                                                         *)
(* Python values are represented as follows.  A str is a sequence of       *)
(* one-character strings; where a variable may hold values of several      *)
(* Python types the value is tagged: None, PyStr(s), PyInt(n), PyFloat(n, k).     *)
(* Field names, format codes and dictionary keys of a decoded record are   *)
(* TLA+ strings, since the program never looks inside them.                *)
(***************************************************************************)
EXTENDS Integers, Sequences, FiniteSets, TLC

\* ------------------------------------------------------------------------
\* Bounds of the model
\* ------------------------------------------------------------------------

\* Longest input file (number of lines) that is explored.
MaxLines == 3

\* The longest text a field is decoded from.
MaxText == 4

\* Longest file of each of two calls that run at once.
MaxCallLines == 2

\* ------------------------------------------------------------------------
\* Python values
\* ------------------------------------------------------------------------

None == [t |-> "none"]

PyStr(s) == [t |-> "str", v |-> s]

PyInt(n) == [t |-> "int", v |-> n]

\* The float num / 10^scale (scale > 0, no trailing zero in the fraction
\* unless scale = 1).
PyFloat(num, scale) == [t |-> "real", num |-> num, scale |-> scale]

\* An exception propagating out of a call.
Raise(kind) == [t |-> "raise", kind |-> kind]

\* bool(x) of Python for the value kinds above.
Truthy(x) ==
  CASE x.t = "none" -> FALSE
    [] x.t = "str"  -> x.v # <<>>
    [] x.t = "int"  -> x.v # 0
    [] x.t = "real" -> x.num # 0
    [] OTHER        -> TRUE

\* ------------------------------------------------------------------------
\* str methods
\* ------------------------------------------------------------------------

\* The characters of the input alphabet that str.strip() removes (a line
\* produced by str.splitlines() holds no line terminator).
Whitespace == {" ", "\t"}

Digits == <<"0", "1", "2", "3", "4", "5", "6", "7", "8", "9">>

Lower == <<"a", "b", "c", "d", "e", "f", "g", "h", "i", "j", "k", "l", "m",
           "n", "o", "p", "q", "r", "s", "t", "u", "v", "w", "x", "y", "z">>

Upper == <<"A", "B", "C", "D", "E", "F", "G", "H", "I", "J", "K", "L", "M",
           "N", "O", "P", "Q", "R", "S", "T", "U", "V", "W", "X", "Y", "Z">>

Spaces(n) == [k \in 1..n |-> " "]

\* s.ljust(width, ' ')
ljust(s, width) ==
  IF Len(s) >= width THEN s ELSE s \o Spaces(width - Len(s))

\* s[b:e] for 0 <= b <= e (Python slicing clamps to the length of s).
Slice(s, b, e) ==
  LET hi == IF e < Len(s) THEN e ELSE Len(s)
  IN  IF b >= hi THEN <<>> ELSE SubSeq(s, b + 1, hi)

\* s.strip()
strip(s) ==
  LET keep == {k \in 1..Len(s) : s[k] \notin Whitespace}
  IN  IF keep = {} THEN <<>>
      ELSE LET lo == CHOOSE k \in keep : \A j \in keep : k <= j
               hi == CHOOSE k \in keep : \A j \in keep : k >= j
           IN  SubSeq(s, lo, hi)

upperChar(c) ==
  IF \E k \in 1..26 : Lower[k] = c
  THEN Upper[CHOOSE k \in 1..26 : Lower[k] = c]
  ELSE c

\* s.upper()
upper(s) == [k \in 1..Len(s) |-> upperChar(s[k])]

\* s.startswith(p)
startswith(s, p) == Len(s) >= Len(p) /\ SubSeq(s, 1, Len(p)) = p

\* s.endswith(p)
endswith(s, p) ==
  Len(s) >= Len(p) /\ SubSeq(s, Len(s) - Len(p) + 1, Len(s)) = p

\* ------------------------------------------------------------------------
\* int(s) and float(s) on stripped text
\* ------------------------------------------------------------------------

IsDigit(c) == \E k \in 1..10 : Digits[k] = c

DigitVal(c) == (CHOOSE k \in 1..10 : Digits[k] = c) - 1

AllDigits(s) == \A k \in 1..Len(s) : IsDigit(s[k])

RECURSIVE DigitsVal(_)
DigitsVal(s) ==
  IF s = <<>> THEN 0
  ELSE 10 * DigitsVal(SubSeq(s, 1, Len(s) - 1)) + DigitVal(s[Len(s)])

HasSign(s) == s # <<>> /\ s[1] \in {"+", "-"}

Unsigned(s) == IF HasSign(s) THEN Tail(s) ELSE s

Signed(s, n) == IF HasSign(s) /\ s[1] = "-" THEN 0 - n ELSE n

\* Mutant of int: more than one digit with a leading zero is refused, as in
\* a Python literal.
int_NoLeadingZeros(s) ==
  LET body == Unsigned(s)
  IN  IF body # <<>> /\ AllDigits(body) /\ (Len(body) = 1 \/ body[1] # "0")
      THEN PyInt(Signed(s, DigitsVal(body)))
      ELSE Raise("ValueError")

\* int(s): an optional sign followed by one or more decimal digits; anything
\* else raises ValueError.
int(s) ==
  LET body == Unsigned(s)
  IN  IF body # <<>> /\ AllDigits(body)
      THEN PyInt(Signed(s, DigitsVal(body)))
      ELSE Raise("ValueError")

RECURSIVE Pow10(_)
Pow10(n) == IF n = 0 THEN 1 ELSE 10 * Pow10(n - 1)

RECURSIVE DropTrailingZeros(_)
DropTrailingZeros(s) ==
  IF Len(s) > 1 /\ s[Len(s)] = "0"
  THEN DropTrailingZeros(SubSeq(s, 1, Len(s) - 1))
  ELSE s

\* float(s) for text that contains a decimal point: an optional sign, digits,
\* one point, digits, with at least one digit overall; anything else raises
\* ValueError.
float(s) ==
  LET body == Unsigned(s)
      dots == {k \in 1..Len(body) : body[k] = "."}
  IN  IF Cardinality(dots) # 1 THEN Raise("ValueError")
      ELSE LET d     == CHOOSE k \in dots : TRUE
               whole == SubSeq(body, 1, d - 1)
               frac  == SubSeq(body, d + 1, Len(body))
               fr    == DropTrailingZeros(IF frac = <<>> THEN <<"0">> ELSE frac)
           IN  IF AllDigits(whole) /\ AllDigits(frac) /\ Len(whole) + Len(frac) > 0
               THEN PyFloat(Signed(s, DigitsVal(whole) * Pow10(Len(fr)) + DigitsVal(fr)),
                         Len(fr))
               ELSE Raise("ValueError")

\* ------------------------------------------------------------------------
\* Field and TCRDefinition
\* ------------------------------------------------------------------------

\* Fixed record width used by parse_tc33_file to normalise a line.
RecordWidth == 168

\* Mutant of Field: the start column is taken as a zero-based offset.
Field_OneBased(name, start, length, data_format) ==
  [name         |-> name,
   start        |-> start,
   length       |-> length,
   data_format  |-> data_format,
   python_start |-> start,
   python_end   |-> start + length]

Field(name, start, length, data_format) ==
  [name         |-> name,
   start        |-> start,
   length       |-> length,
   data_format  |-> data_format,
   python_start |-> start - 1,
   python_end   |-> (start - 1) + length]

\* {field.name: field for field in fields}: a later field of the same name
\* replaces the value and keeps the position of the first.
FieldsDict(fields) ==
  LET first(k) == \A j \in 1..(k - 1) : fields[j].name # fields[k].name
      last(n)  == CHOOSE k \in 1..Len(fields) :
                    /\ fields[k].name = n
                    /\ \A j \in (k + 1)..Len(fields) : fields[j].name # n
      firsts   == SelectSeq([k \in 1..Len(fields) |-> k], first)
  IN  [i \in 1..Len(firsts) |-> fields[last(fields[firsts[i]].name)]]

\* A schema object.  id stands for the identity of the Python object (the
\* module-level name it is bound to); every schema is an instance of the
\* base class itself.
TCRDefinition(id, tcr_type, tcr_qualifier, tcr_sequence, application_code, fields) ==
  [id               |-> id,
   tcr_type         |-> tcr_type,
   tcr_qualifier    |-> tcr_qualifier,
   tcr_sequence     |-> tcr_sequence,
   application_code |-> application_code,
   fields           |-> FieldsDict(fields)]

\* tcr_def.__class__.__name__
ClassName(tcr_def) == <<"T", "C", "R", "D", "e", "f", "i", "n", "i", "t", "i", "o", "n">>

FieldNames(tcr_def) == {tcr_def.fields[k].name : k \in 1..Len(tcr_def.fields)}

\* 'name' in tcr_def.fields
HasField(tcr_def, field_name) == field_name \in FieldNames(tcr_def)

\* tcr_def.fields.get(name), for a name the schema declares
FieldOf(tcr_def, field_name) ==
  tcr_def.fields[CHOOSE k \in 1..Len(tcr_def.fields) :
                   tcr_def.fields[k].name = field_name]

\* Mutant of NumericValue: the ValueError of the conversion is not caught.
NumericValue_NoExcept(value) ==
  LET stripped_value == strip(value)
  IN  IF stripped_value = <<>> THEN PyInt(0)
      ELSE IF "." \in {stripped_value[k] : k \in 1..Len(stripped_value)}
           THEN float(stripped_value) ELSE int(stripped_value)

\* Mutant of NumericValue: the text is always converted with int.
NumericValue_IntOnly(value) ==
  LET stripped_value == strip(value)
  IN  IF stripped_value = <<>> THEN PyInt(0)
      ELSE LET r == int(stripped_value)
           IN  IF r.t = "raise" THEN PyInt(0) ELSE r

\* The conversion of the numeric formats UN and N.
NumericValue(value) ==
  LET stripped_value == strip(value)
  IN  IF stripped_value = <<>> THEN PyInt(0)
      ELSE LET r == IF "." \in {stripped_value[k] : k \in 1..Len(stripped_value)}
                    THEN float(stripped_value)
                    ELSE int(stripped_value)
           IN  IF r.t = "raise" THEN PyInt(0) ELSE r

\* Mutant of get_field_value: a line that ends before the field is not
\* padded, reading it fails.
get_field_value_ShortLineFails(tcr_def, line, field_name) ==
  IF ~HasField(tcr_def, field_name) THEN Raise("ValueError")
  ELSE LET field == FieldOf(tcr_def, field_name)
           value == Slice(line, field.python_start, field.python_end)
       IN  IF Len(line) < field.python_end THEN Raise("IndexError")
           ELSE IF field.data_format \in {"UN", "N"} THEN NumericValue(value)
           ELSE PyStr(strip(value))

\* Mutant of get_field_value: text formats are returned as sliced, not
\* stripped.
get_field_value_NoStrip(tcr_def, line, field_name) ==
  IF ~HasField(tcr_def, field_name) THEN Raise("ValueError")
  ELSE LET field  == FieldOf(tcr_def, field_name)
           padded == IF Len(line) < field.python_end THEN ljust(line, field.python_end) ELSE line
           value  == Slice(padded, field.python_start, field.python_end)
       IN  IF field.data_format \in {"UN", "N"} THEN NumericValue(value)
           ELSE PyStr(value)

\* Mutant of get_field_value: the slice runs to the end of the line.
get_field_value_OpenEnd(tcr_def, line, field_name) ==
  IF ~HasField(tcr_def, field_name) THEN Raise("ValueError")
  ELSE LET field  == FieldOf(tcr_def, field_name)
           padded == IF Len(line) < field.python_end THEN ljust(line, field.python_end) ELSE line
           value  == Slice(padded, field.python_start, Len(padded))
       IN  IF field.data_format \in {"UN", "N"} THEN NumericValue(value)
           ELSE PyStr(strip(value))

\* TCRDefinition.get_field_value(line, field_name)
get_field_value(tcr_def, line, field_name) ==
  IF ~HasField(tcr_def, field_name) THEN Raise("ValueError")
  ELSE LET field  == FieldOf(tcr_def, field_name)
           padded == IF Len(line) < field.python_end
                     THEN ljust(line, field.python_end) ELSE line
           value  == Slice(padded, field.python_start, field.python_end)
       IN  IF field.data_format \in {"UN", "N"} THEN NumericValue(value)
           ELSE PyStr(strip(value))

\* ------------------------------------------------------------------------
\* The schema tables (tc33_definitions.py)
\* ------------------------------------------------------------------------

\* A key of TCR_DEFINITIONS that is a tuple (application code, sequence).
TupleKey(application_code, tcr_sequence, def_obj) ==
  [is_tuple |-> TRUE, key |-> <<application_code, tcr_sequence>>, def |-> def_obj]

\* A key of TCR_DEFINITIONS that is a plain name.
NameKey(name, def_obj) ==
  [is_tuple |-> FALSE, key |-> name, def |-> def_obj]

TCR_HEADER ==
  TCRDefinition("TCR_HEADER", <<"3", "3">>, <<"0">>, <<"0">>, <<"H", "E", "D", "R">>, <<
    Field("Transaction Code", 1, 2, "UN"),
    Field("Transaction Code Qualifier", 3, 1, "UN"),
    Field("Transaction Component Sequence Number", 4, 1, "AN"),
    Field("Destination Identifier", 5, 6, "UN"),
    Field("Source Identifier", 11, 6, "UN"),
    Field("TC 33 Application Code - Header", 17, 4, "AN"),
    Field("Capture File Number", 21, 4, "UN"),
    Field("Capture Creation Date", 25, 8, "UN"),
    Field("Reserved", 33, 136, "AN") >>)

TCR_TRAILER ==
  TCRDefinition("TCR_TRAILER", <<"3", "3">>, <<"0">>, <<"0">>, <<"T", "R", "L", "R">>, <<
    Field("Transaction Code", 1, 2, "UN"),
    Field("Transaction Code Qualifier", 3, 1, "UN"),
    Field("Transaction Component Sequence Number", 4, 1, "AN"),
    Field("Destination Identifier", 5, 6, "UN"),
    Field("Source Identifier", 11, 6, "UN"),
    Field("TC 33 Application Code - Trailer", 17, 4, "AN"),
    Field("Capture File Number", 21, 4, "UN"),
    Field("Capture Creation Date", 25, 8, "UN"),
    Field("Total Transaction Count", 33, 9, "UN"),
    Field("Total Transaction Amount", 42, 20, "UN"),
    Field("Reserved", 62, 107, "AN") >>)

CP01_TCR0 ==
  TCRDefinition("CP01_TCR0", <<"3", "3">>, <<"0">>, <<"0">>, <<"C", "P", "0", "1">>, <<
    Field("Transaction Code", 1, 2, "UN"),
    Field("Transaction Code Qualifier", 3, 1, "UN"),
    Field("Transaction Component Sequence Number", 4, 1, "AN"),
    Field("Destination Identifier", 5, 6, "UN"),
    Field("Source Identifier", 11, 6, "UN"),
    Field("TC 33 Application Code", 17, 4, "AN"),
    Field("Message Identifier", 21, 15, "AN"),
    Field("Transaction Identifier", 36, 15, "AN"),
    Field("Retrieval Reference Number", 51, 12, "AN"),
    Field("Account Number", 63, 16, "AN"),
    Field("Account Number Extension", 79, 3, "AN"),
    Field("Expiration Date", 82, 4, "AN"),
    Field("Purchase Date", 86, 4, "UN"),
    Field("Authorization Date", 90, 4, "AN"),
    Field("Decimal Positions Indicator", 94, 2, "AN"),
    Field("Authorized Amount", 96, 12, "UN"),
    Field("Authorization Currency Code", 108, 3, "AN"),
    Field("Total Authorized Amount", 111, 12, "UN"),
    Field("Source Amount", 123, 12, "UN"),
    Field("Source Currency Code", 135, 3, "AN"),
    Field("Tip Amount", 138, 12, "UN"),
    Field("Action Code", 150, 2, "AN"),
    Field("Service Identifier", 152, 2, "AN"),
    Field("Acquiring Identifier", 154, 6, "UN"),
    Field("Message Reason Code", 160, 4, "AN"),
    Field("Additional Authorization Indicator", 164, 1, "N"),
    Field("Domestic Switch ID", 165, 4, "AN") >>)

CP01_TCR1 ==
  TCRDefinition("CP01_TCR1", <<"3", "3">>, <<"0">>, <<"1">>, <<"C", "P", "0", "1">>, <<
    Field("Transaction Code", 1, 2, "UN"),
    Field("Transaction Code Qualifier", 3, 1, "UN"),
    Field("Transaction Component Sequence Number", 4, 1, "AN"),
    Field("Capture Date", 5, 4, "UN"),
    Field("Authorization Code", 9, 6, "AN"),
    Field("POS Entry Mode", 15, 2, "AN"),
    Field("Card Acceptor ID", 17, 15, "ANS"),
    Field("Terminal ID", 32, 8, "ANS"),
    Field("Mail/Phone/Electronic Commerce and Payment Indicator", 40, 1, "AN"),
    Field("Unattended Acceptance Terminal Indicator", 41, 1, "AN"),
    Field("AVS Response Code", 42, 1, "AN"),
    Field("Authorization Source Code", 43, 1, "AN"),
    Field("Purchase Identifier Format", 44, 1, "AN"),
    Field("Purchase Identifier", 45, 25, "AN"),
    Field("Card ID", 70, 2, "AN"),
    Field("Point-of-Service Condition Code", 72, 2, "AN"),
    Field("Processing Code", 74, 6, "AN"),
    Field("Network ID", 80, 4, "AN"),
    Field("Authorization Response Code", 84, 2, "AN"),
    Field("Validation Code", 86, 4, "AN"),
    Field("Market-Specific Authorization Data Indicator", 90, 1, "AN"),
    Field("Product ID", 91, 2, "AN"),
    Field("Program ID", 93, 6, "AN"),
    Field("CVV2 Result Code", 99, 1, "AN"),
    Field("Authorization Characteristics Indicator", 100, 1, "AN"),
    Field("POS Terminal Capability", 101, 1, "AN"),
    Field("Cardholder ID Method", 102, 1, "AN"),
    Field("Request ID", 103, 26, "AN"),
    Field("Electronic Commerce Goods Indicator", 129, 2, "AN"),
    Field("Fee Program Indicator", 131, 3, "AN"),
    Field("Service Development Field", 134, 1, "AN"),
    Field("Account Selection", 135, 1, "AN"),
    Field("POS Environment", 136, 1, "AN"),
    Field("Time of Purchase", 137, 4, "UN"),
    Field("Batch Request ID", 141, 26, "AN"),
    Field("Spend Qualified Indicator", 167, 1, "AN"),
    Field("CAVV Results Code", 168, 1, "AN") >>)

CP01_TCR2 ==
  TCRDefinition("CP01_TCR2", <<"3", "3">>, <<"0">>, <<"2">>, <<"C", "P", "0", "1">>, <<
    Field("Transaction Code", 1, 2, "UN"),
    Field("Transaction Code Qualifier", 3, 1, "UN"),
    Field("Transaction Component Sequence Number", 4, 1, "AN"),
    Field("Bill to Last Name", 5, 60, "ANS"),
    Field("Bill to First Name", 65, 60, "ANS"),
    Field("Bill to Postal Code", 125, 11, "ANS"),
    Field("Ship to Postal Code", 136, 20, "ANS"),
    Field("Ship to State/Province Code", 156, 3, "ANS"),
    Field("Ship from Postal Code", 159, 10, "ANS") >>)

CP01_TCR3 ==
  TCRDefinition("CP01_TCR3", <<"3", "3">>, <<"0">>, <<"3">>, <<"C", "P", "0", "1">>, <<
    Field("Transaction Code", 1, 2, "UN"),
    Field("Transaction Code Qualifier", 3, 1, "UN"),
    Field("Transaction Component Sequence Number", 4, 1, "AN"),
    Field("Ship to Country Code", 5, 3, "AN"),
    Field("Address Line 1", 8, 40, "ANS"),
    Field("Address Line 2", 48, 40, "ANS"),
    Field("City", 88, 50, "ANS"),
    Field("State", 138, 20, "ANS"),
    Field("Billing Country Code", 158, 3, "AN"),
    Field("Reserved", 161, 8, "AN") >>)

CP01_TCR4 ==
  TCRDefinition("CP01_TCR4", <<"3", "3">>, <<"0">>, <<"4">>, <<"C", "P", "0", "1">>, <<
    Field("Transaction Code", 1, 2, "UN"),
    Field("Transaction Code Qualifier", 3, 1, "UN"),
    Field("Transaction Component Sequence Number", 4, 1, "AN"),
    Field("Merchant Name", 5, 25, "ANS"),
    Field("Merchant Street Address", 30, 60, "ANS"),
    Field("Merchant City", 90, 13, "ANS"),
    Field("Merchant State/Province", 103, 3, "ANS"),
    Field("Merchant Country", 106, 3, "AN"),
    Field("Merchant Postal Code", 109, 9, "ANS"),
    Field("Merchant Phone Number", 118, 15, "ANS"),
    Field("Merchant URL", 133, 30, "ANS"),
    Field("Merchant Category Code", 163, 4, "AN"),
    Field("Reserved", 167, 2, "AN") >>)

CP01_TCR5 ==
  TCRDefinition("CP01_TCR5", <<"3", "3">>, <<"0">>, <<"5">>, <<"C", "P", "0", "1">>, <<
    Field("Transaction Code", 1, 2, "UN"),
    Field("Transaction Code Qualifier", 3, 1, "UN"),
    Field("Transaction Component Sequence Number", 4, 1, "AN"),
    Field("Installment Payment Count", 5, 3, "UN"),
    Field("Installment Payment Frequency", 8, 1, "AN"),
    Field("Installment Payment Amount", 9, 12, "UN"),
    Field("Installment First Payment Date", 21, 6, "UN"),
    Field("Installment Grace Period Duration", 27, 3, "UN"),
    Field("Installment Grace Period Duration Type", 30, 1, "AN"),
    Field("Installment Transaction ID", 31, 15, "AN"),
    Field("Reserved", 46, 123, "AN") >>)

CP01_TCR6 ==
  TCRDefinition("CP01_TCR6", <<"3", "3">>, <<"0">>, <<"6">>, <<"C", "P", "0", "1">>, <<
    Field("Transaction Code", 1, 2, "UN"),
    Field("Transaction Code Qualifier", 3, 1, "UN"),
    Field("Transaction Component Sequence Number", 4, 1, "AN"),
    Field("Cardholder Authentication Verification Value", 5, 20, "ANS"),
    Field("Network Transaction Identifier", 25, 15, "AN"),
    Field("Message Integrity Check Value", 40, 20, "DX"),
    Field("Transaction Security Level", 60, 2, "AN"),
    Field("Transaction ID for 3D Secure", 62, 28, "ANS"),
    Field("Program Protocol", 90, 2, "AN"),
    Field("Directory Server Transaction ID", 92, 28, "ANS"),
    Field("Reserved", 120, 49, "AN") >>)

CP01_TCR7 ==
  TCRDefinition("CP01_TCR7", <<"3", "3">>, <<"0">>, <<"7">>, <<"C", "P", "0", "1">>, <<
    Field("Transaction Code", 1, 2, "UN"),
    Field("Transaction Code Qualifier", 3, 1, "UN"),
    Field("Transaction Component Sequence Number", 4, 1, "AN"),
    Field("Processor Supplied Data", 5, 164, "ANS") >>)

CP01_TCR8 ==
  TCRDefinition("CP01_TCR8", <<"3", "3">>, <<"0">>, <<"8">>, <<"C", "P", "0", "1">>, <<
    Field("Transaction Code", 1, 2, "UN"),
    Field("Transaction Code Qualifier", 3, 1, "UN"),
    Field("Transaction Component Sequence Number", 4, 1, "AN"),
    Field("Transaction Type Indicator", 5, 1, "AN"),
    Field("Recurring Transaction Indicator", 6, 1, "AN"),
    Field("Payment Facilitator ID", 7, 11, "AN"),
    Field("Sub-Merchant ID", 18, 15, "AN"),
    Field("Reserved", 33, 136, "AN") >>)

CP01_TCR9_GENERIC ==
  TCRDefinition("CP01_TCR9_GENERIC", <<"3", "3">>, <<"0">>, <<"9">>, <<"C", "P", "0", "1">>, <<
    Field("Transaction Code", 1, 2, "UN"),
    Field("Transaction Code Qualifier", 3, 1, "UN"),
    Field("Transaction Component Sequence Number", 4, 1, "AN"),
    Field("Intra-Country Data", 5, 164, "ANS") >>)

CP01_TCR9_COL ==
  TCRDefinition("CP01_TCR9_COL", <<"3", "3">>, <<"0">>, <<"9">>, <<"C", "P", "0", "1">>, <<
    Field("Transaction Code", 1, 2, "UN"),
    Field("Transaction Code Qualifier", 3, 1, "UN"),
    Field("Transaction Component Sequence Number", 4, 1, "AN"),
    Field("National Data Country Code", 5, 3, "AN"),
    Field("Payment Method", 8, 2, "AN"),
    Field("Taxable Amount", 10, 12, "UN"),
    Field("Tax Amount", 22, 12, "UN"),
    Field("Non-Taxable Amount", 34, 12, "UN"),
    Field("Installment Count", 46, 3, "N"),
    Field("Merchant Industry", 49, 4, "AN"),
    Field("Discount Amount", 53, 12, "UN"),
    Field("Invoice Number", 65, 20, "AN"),
    Field("POS System Trace Audit Number", 85, 6, "AN"),
    Field("Cashback Amount", 91, 12, "UN"),
    Field("Reserved", 103, 66, "AN") >>)

CP01_TCR9_JPN ==
  TCRDefinition("CP01_TCR9_JPN", <<"3", "3">>, <<"0">>, <<"9">>, <<"C", "P", "0", "1">>, <<
    Field("Transaction Code", 1, 2, "UN"),
    Field("Transaction Code Qualifier", 3, 1, "UN"),
    Field("Transaction Component Sequence Number", 4, 1, "AN"),
    Field("JCN Purchase Plan Code", 5, 2, "AN"),
    Field("JCN Purchase Plan Amount", 7, 12, "UN"),
    Field("JCN Purchase Plan Tax Amount", 19, 12, "UN"),
    Field("Reserved", 31, 138, "AN") >>)

CP01_TCR9_MEX ==
  TCRDefinition("CP01_TCR9_MEX", <<"3", "3">>, <<"0">>, <<"9">>, <<"C", "P", "0", "1">>, <<
    Field("Transaction Code", 1, 2, "UN"),
    Field("Transaction Code Qualifier", 3, 1, "UN"),
    Field("Transaction Component Sequence Number", 4, 1, "AN"),
    Field("Mexico Installment Indicator", 5, 1, "AN"),
    Field("Mexico Installment Number", 6, 2, "N"),
    Field("Mexico Coupon Code", 8, 4, "AN"),
    Field("Mexico Cashback Amount", 12, 12, "UN"),
    Field("Reserved", 24, 145, "AN") >>)

CP01_TCRA ==
  TCRDefinition("CP01_TCRA", <<"3", "3">>, <<"0">>, <<"A">>, <<"C", "P", "0", "1">>, <<
    Field("Transaction Code", 1, 2, "UN"),
    Field("Transaction Code Qualifier", 3, 1, "UN"),
    Field("Transaction Component Sequence Number", 4, 1, "AN"),
    Field("Currency Conversion Rate", 5, 12, "UN"),
    Field("Original Currency Amount", 17, 12, "UN"),
    Field("Original Currency Code", 29, 3, "AN"),
    Field("Converted Amount", 32, 12, "UN"),
    Field("Converted Currency Code", 44, 3, "AN"),
    Field("Reserved", 47, 122, "AN") >>)

CP01_TCRB ==
  TCRDefinition("CP01_TCRB", <<"3", "3">>, <<"0">>, <<"B">>, <<"C", "P", "0", "1">>, <<
    Field("Transaction Code", 1, 2, "UN"),
    Field("Transaction Code Qualifier", 3, 1, "UN"),
    Field("Transaction Component Sequence Number", 4, 1, "AN"),
    Field("Gateway Reference ID", 5, 20, "AN"),
    Field("Gateway Transaction Time", 25, 6, "UN"),
    Field("Gateway Transaction Date", 31, 8, "UN"),
    Field("Reserved", 39, 130, "AN") >>)

CP02_TCR0 ==
  TCRDefinition("CP02_TCR0", <<"3", "3">>, <<"0">>, <<"0">>, <<"C", "P", "0", "2">>, <<
    Field("Transaction Code", 1, 2, "UN"),
    Field("Transaction Code Qualifier", 3, 1, "UN"),
    Field("Transaction Component Sequence Number", 4, 1, "AN"),
    Field("Destination Identifier", 5, 6, "UN"),
    Field("Source Identifier", 11, 6, "UN"),
    Field("TC 33 Application Code", 17, 4, "AN"),
    Field("Message Identifier", 21, 15, "AN"),
    Field("Application Interchange Profile", 36, 4, "DX"),
    Field("Dedicated File Name", 40, 32, "DX"),
    Field("Terminal Capabilities", 72, 6, "DX"),
    Field("Terminal Country Code", 78, 4, "DX"),
    Field("Transaction Currency Code", 82, 4, "DX"),
    Field("Transaction Date", 86, 6, "DX"),
    Field("Transaction Type", 92, 2, "DX"),
    Field("Unpredictable Number", 94, 8, "DX"),
    Field("Amount Authorized (Binary)", 102, 12, "DX"),
    Field("Amount Other (Binary)", 114, 12, "DX"),
    Field("Application Transaction Counter", 126, 4, "DX"),
    Field("Cryptogram", 130, 16, "DX"),
    Field("Cryptogram Information Data", 146, 2, "DX"),
    Field("Issuer Application Data", 148, 32, "DX"),
    Field("Issuer Application Data (part 1)", 148, 21, "DX") >>)

CP02_TCR1 ==
  TCRDefinition("CP02_TCR1", <<"3", "3">>, <<"0">>, <<"1">>, <<"C", "P", "0", "2">>, <<
    Field("Transaction Code", 1, 2, "UN"),
    Field("Transaction Code Qualifier", 3, 1, "UN"),
    Field("Transaction Component Sequence Number", 4, 1, "AN"),
    Field("Terminal Verification Results", 5, 10, "DX"),
    Field("Transaction Status Information", 15, 4, "DX"),
    Field("Cardholder Verification Method Results", 19, 6, "DX"),
    Field("Issuer Authentication Data", 25, 32, "DX"),
    Field("Cryptogram Version Number", 57, 2, "DX"),
    Field("Terminal Type", 59, 2, "DX"),
    Field("Terminal Capabilities (part 2)", 61, 2, "DX"),
    Field("Dedicated File Name (part 2)", 63, 10, "DX"),
    Field("Filler", 73, 96, "AN") >>)

CP03_TCR0 ==
  TCRDefinition("CP03_TCR0", <<"3", "3">>, <<"0">>, <<"0">>, <<"C", "P", "0", "3">>, <<
    Field("Transaction Code", 1, 2, "UN"),
    Field("Transaction Code Qualifier", 3, 1, "UN"),
    Field("Transaction Component Sequence Number", 4, 1, "AN"),
    Field("Destination Identifier", 5, 6, "UN"),
    Field("Source Identifier", 11, 6, "UN"),
    Field("TC 33 Application Code", 17, 4, "AN"),
    Field("Message Identifier", 21, 15, "AN"),
    Field("Lodging Property Type", 36, 2, "AN"),
    Field("Lodging Chain Code", 38, 3, "AN"),
    Field("Lodging Property ID", 41, 11, "AN"),
    Field("Check-in Date", 52, 8, "UN"),
    Field("Check-out Date", 60, 8, "UN"),
    Field("Total Room Nights", 68, 3, "UN"),
    Field("Room Rate", 71, 12, "UN"),
    Field("Reserved", 83, 86, "AN") >>)

CP03_TCR1 ==
  TCRDefinition("CP03_TCR1", <<"3", "3">>, <<"0">>, <<"1">>, <<"C", "P", "0", "3">>, <<
    Field("Transaction Code", 1, 2, "UN"),
    Field("Transaction Code Qualifier", 3, 1, "UN"),
    Field("Transaction Component Sequence Number", 4, 1, "AN"),
    Field("Lodging Folio Number", 5, 20, "AN"),
    Field("Lodging Check-in Date", 25, 6, "UN"),
    Field("Lodging Check-out Date", 31, 6, "UN"),
    Field("Lodging Duration", 37, 3, "UN"),
    Field("Lodging Rate", 40, 12, "UN"),
    Field("Lodging Guest Name", 52, 60, "ANS"),
    Field("Reserved", 112, 57, "AN") >>)

CP03_TCR4 ==
  TCRDefinition("CP03_TCR4", <<"3", "3">>, <<"0">>, <<"4">>, <<"C", "P", "0", "3">>, <<
    Field("Transaction Code", 1, 2, "UN"),
    Field("Transaction Code Qualifier", 3, 1, "UN"),
    Field("Transaction Component Sequence Number", 4, 1, "AN"),
    Field("Room Tax", 5, 12, "UN"),
    Field("Misc Expenses", 17, 12, "UN"),
    Field("Food & Beverage", 29, 12, "UN"),
    Field("Phone Charges", 41, 12, "UN"),
    Field("Incidental Charges", 53, 12, "UN"),
    Field("Total Additional Amounts", 65, 12, "UN"),
    Field("Reserved", 77, 92, "AN") >>)

CP04_TCR0 ==
  TCRDefinition("CP04_TCR0", <<"3", "3">>, <<"0">>, <<"0">>, <<"C", "P", "0", "4">>, <<
    Field("Transaction Code", 1, 2, "UN"),
    Field("Transaction Code Qualifier", 3, 1, "UN"),
    Field("Transaction Component Sequence Number", 4, 1, "AN"),
    Field("Destination Identifier", 5, 6, "UN"),
    Field("Source Identifier", 11, 6, "UN"),
    Field("TC 33 Application Code", 17, 4, "AN"),
    Field("Message Identifier", 21, 15, "AN"),
    Field("Airline Code", 36, 3, "AN"),
    Field("Ticket Number", 39, 15, "AN"),
    Field("Travel Agency Code", 54, 8, "AN"),
    Field("Departure Date", 62, 8, "UN"),
    Field("Reserved", 70, 99, "AN") >>)

CP04_TCR1 ==
  TCRDefinition("CP04_TCR1", <<"3", "3">>, <<"0">>, <<"1">>, <<"C", "P", "0", "4">>, <<
    Field("Transaction Code", 1, 2, "UN"),
    Field("Transaction Code Qualifier", 3, 1, "UN"),
    Field("Transaction Component Sequence Number", 4, 1, "AN"),
    Field("Passenger Name", 5, 30, "ANS"),
    Field("Ticket Issue Date", 35, 8, "UN"),
    Field("Fare Basis Code", 43, 8, "AN"),
    Field("Origin Airport Code", 51, 3, "AN"),
    Field("Destination Airport Code", 54, 3, "AN"),
    Field("Flight Number", 57, 5, "UN"),
    Field("Class of Service", 62, 1, "AN"),
    Field("Travel Agency Name", 63, 25, "ANS"),
    Field("Reserved", 88, 81, "AN") >>)

CP05_TCR0 ==
  TCRDefinition("CP05_TCR0", <<"3", "3">>, <<"0">>, <<"0">>, <<"C", "P", "0", "5">>, <<
    Field("Transaction Code", 1, 2, "UN"),
    Field("Transaction Code Qualifier", 3, 1, "UN"),
    Field("Transaction Component Sequence Number", 4, 1, "AN"),
    Field("Destination Identifier", 5, 6, "UN"),
    Field("Source Identifier", 11, 6, "UN"),
    Field("TC 33 Application Code", 17, 4, "AN"),
    Field("Message Identifier", 21, 15, "AN"),
    Field("Rental Agreement Number", 36, 20, "AN"),
    Field("Rental Pick-up Date", 56, 8, "UN"),
    Field("Rental Return Date", 64, 8, "UN"),
    Field("Rental Duration", 72, 3, "UN"),
    Field("Reserved", 75, 94, "AN") >>)

CP06_TCR0 ==
  TCRDefinition("CP06_TCR0", <<"3", "3">>, <<"0">>, <<"0">>, <<"C", "P", "0", "6">>, <<
    Field("Transaction Code", 1, 2, "UN"),
    Field("Transaction Code Qualifier", 3, 1, "UN"),
    Field("Transaction Component Sequence Number", 4, 1, "AN"),
    Field("Destination Identifier", 5, 6, "UN"),
    Field("Source Identifier", 11, 6, "UN"),
    Field("TC 33 Application Code", 17, 4, "AN"),
    Field("Message Identifier", 21, 15, "AN"),
    Field("Invoice Date", 36, 8, "UN"),
    Field("Invoice Number", 44, 20, "AN"),
    Field("Purchase Order Number", 64, 20, "AN"),
    Field("Total Discount Amount", 84, 12, "UN"),
    Field("Total Tax Amount", 96, 12, "UN"),
    Field("Shipping Cost", 108, 12, "UN"),
    Field("Duty Amount", 120, 12, "UN"),
    Field("Reserved", 132, 37, "AN") >>)

CP06_TCR1 ==
  TCRDefinition("CP06_TCR1", <<"3", "3">>, <<"0">>, <<"1">>, <<"C", "P", "0", "6">>, <<
    Field("Transaction Code", 1, 2, "UN"),
    Field("Transaction Code Qualifier", 3, 1, "UN"),
    Field("Transaction Component Sequence Number", 4, 1, "AN"),
    Field("Line Item Sequence Number", 5, 3, "UN"),
    Field("Item Description", 8, 26, "ANS"),
    Field("Quantity", 34, 12, "UN"),
    Field("Unit Cost", 46, 12, "UN"),
    Field("Item Amount", 58, 12, "UN"),
    Field("Discount Amount Line Item", 70, 12, "UN"),
    Field("Tax Amount Line Item", 82, 12, "UN"),
    Field("Product Code", 94, 12, "AN"),
    Field("Unit of Measure", 106, 3, "AN"),
    Field("Tax Rate", 109, 6, "UN"),
    Field("Debit/Credit Indicator Line Item", 115, 1, "AN"),
    Field("Reserved", 116, 53, "AN") >>)

CP07_TCR0 ==
  TCRDefinition("CP07_TCR0", <<"3", "3">>, <<"0">>, <<"0">>, <<"C", "P", "0", "7">>, <<
    Field("Transaction Code", 1, 2, "UN"),
    Field("Transaction Code Qualifier", 3, 1, "UN"),
    Field("Transaction Component Sequence Number", 4, 1, "AN"),
    Field("Destination Identifier", 5, 6, "UN"),
    Field("Source Identifier", 11, 6, "UN"),
    Field("TC 33 Application Code", 17, 4, "AN"),
    Field("Message Identifier", 21, 15, "AN"),
    Field("Installment Plan ID", 36, 2, "AN"),
    Field("Number of Installments", 38, 3, "UN"),
    Field("Reserved", 41, 128, "AN") >>)

CP07_TCR8 ==
  TCRDefinition("CP07_TCR8", <<"3", "3">>, <<"0">>, <<"8">>, <<"C", "P", "0", "7">>, <<
    Field("Transaction Code", 1, 2, "UN"),
    Field("Transaction Code Qualifier", 3, 1, "UN"),
    Field("Transaction Component Sequence Number", 4, 1, "AN"),
    Field("Original Authorization Amount", 5, 12, "UN"),
    Field("Original Authorization Currency Code", 17, 3, "AN"),
    Field("Original Approval Code", 20, 6, "AN"),
    Field("Original Transaction Date", 26, 4, "UN"),
    Field("Original Transaction Time", 30, 6, "UN"),
    Field("Original Message Identifier", 36, 15, "AN"),
    Field("Reserved", 51, 118, "AN") >>)

CP08_TCR0 ==
  TCRDefinition("CP08_TCR0", <<"3", "3">>, <<"0">>, <<"0">>, <<"C", "P", "0", "8">>, <<
    Field("Transaction Code", 1, 2, "UN"),
    Field("Transaction Code Qualifier", 3, 1, "UN"),
    Field("Transaction Component Sequence Number", 4, 1, "AN"),
    Field("Destination Identifier", 5, 6, "UN"),
    Field("Source Identifier", 11, 6, "UN"),
    Field("TC 33 Application Code", 17, 4, "AN"),
    Field("Message Identifier", 21, 15, "AN"),
    Field("Discretionary Data", 36, 133, "ANS") >>)

CP09_TCR0 ==
  TCRDefinition("CP09_TCR0", <<"3", "3">>, <<"0">>, <<"0">>, <<"C", "P", "0", "9">>, <<
    Field("Transaction Code", 1, 2, "UN"),
    Field("Transaction Code Qualifier", 3, 1, "UN"),
    Field("Transaction Component Sequence Number", 4, 1, "AN"),
    Field("Destination Identifier", 5, 6, "UN"),
    Field("Source Identifier", 11, 6, "UN"),
    Field("TC 33 Application Code", 17, 4, "AN"),
    Field("Message Identifier", 21, 15, "AN"),
    Field("Reserved", 36, 133, "AN") >>)

CP09_TCR4 ==
  TCRDefinition("CP09_TCR4", <<"3", "3">>, <<"0">>, <<"4">>, <<"C", "P", "0", "9">>, <<
    Field("Transaction Code", 1, 2, "UN"),
    Field("Transaction Code Qualifier", 3, 1, "UN"),
    Field("Transaction Component Sequence Number", 4, 1, "AN"),
    Field("Recipient First Name", 5, 40, "ANS"),
    Field("Recipient Last Name", 45, 40, "ANS"),
    Field("Reserved", 85, 84, "AN") >>)

CP10_TCR0 ==
  TCRDefinition("CP10_TCR0", <<"3", "3">>, <<"0">>, <<"0">>, <<"C", "P", "1", "0">>, <<
    Field("Transaction Code", 1, 2, "UN"),
    Field("Transaction Code Qualifier", 3, 1, "UN"),
    Field("Transaction Component Sequence Number", 4, 1, "AN"),
    Field("Destination Identifier", 5, 6, "UN"),
    Field("Source Identifier", 11, 6, "UN"),
    Field("TC 33 Application Code", 17, 4, "AN"),
    Field("Message Identifier", 21, 15, "AN"),
    Field("POS Device Type", 36, 2, "AN"),
    Field("POS Device Capabilities", 38, 3, "AN"),
    Field("Reserved", 41, 128, "AN") >>)

CP12_TCR0 ==
  TCRDefinition("CP12_TCR0", <<"3", "3">>, <<"0">>, <<"0">>, <<"C", "P", "1", "2">>, <<
    Field("Transaction Code", 1, 2, "UN"),
    Field("Transaction Code Qualifier", 3, 1, "UN"),
    Field("Transaction Component Sequence Number", 4, 1, "AN"),
    Field("Destination Identifier", 5, 6, "UN"),
    Field("Source Identifier", 11, 6, "UN"),
    Field("TC 33 Application Code", 17, 4, "AN"),
    Field("Message Identifier", 21, 15, "AN"),
    Field("Merchant Category Code (MCC)", 36, 4, "AN"),
    Field("Merchant SIC Code", 40, 4, "AN"),
    Field("Reserved", 44, 125, "AN") >>)

TCR_DEFINITIONS ==
  <<
    TupleKey(<<"H", "E", "D", "R">>, <<"0">>, TCR_HEADER),
    TupleKey(<<"T", "R", "L", "R">>, <<"0">>, TCR_TRAILER),
    TupleKey(<<"C", "P", "0", "1">>, <<"0">>, CP01_TCR0),
    TupleKey(<<"C", "P", "0", "1">>, <<"1">>, CP01_TCR1),
    TupleKey(<<"C", "P", "0", "1">>, <<"2">>, CP01_TCR2),
    TupleKey(<<"C", "P", "0", "1">>, <<"3">>, CP01_TCR3),
    TupleKey(<<"C", "P", "0", "1">>, <<"4">>, CP01_TCR4),
    TupleKey(<<"C", "P", "0", "1">>, <<"5">>, CP01_TCR5),
    TupleKey(<<"C", "P", "0", "1">>, <<"6">>, CP01_TCR6),
    TupleKey(<<"C", "P", "0", "1">>, <<"7">>, CP01_TCR7),
    TupleKey(<<"C", "P", "0", "1">>, <<"8">>, CP01_TCR8),
    TupleKey(<<"C", "P", "0", "1">>, <<"9">>, CP01_TCR9_GENERIC),
    TupleKey(<<"C", "P", "0", "1">>, <<"A">>, CP01_TCRA),
    TupleKey(<<"C", "P", "0", "1">>, <<"B">>, CP01_TCRB),
    NameKey("CP01_TCR9_COL", CP01_TCR9_COL),
    NameKey("CP01_TCR9_JPN", CP01_TCR9_JPN),
    NameKey("CP01_TCR9_MEX", CP01_TCR9_MEX),
    TupleKey(<<"C", "P", "0", "2">>, <<"0">>, CP02_TCR0),
    TupleKey(<<"C", "P", "0", "2">>, <<"1">>, CP02_TCR1),
    TupleKey(<<"C", "P", "0", "3">>, <<"0">>, CP03_TCR0),
    TupleKey(<<"C", "P", "0", "3">>, <<"1">>, CP03_TCR1),
    TupleKey(<<"C", "P", "0", "3">>, <<"4">>, CP03_TCR4),
    TupleKey(<<"C", "P", "0", "4">>, <<"0">>, CP04_TCR0),
    TupleKey(<<"C", "P", "0", "4">>, <<"1">>, CP04_TCR1),
    TupleKey(<<"C", "P", "0", "5">>, <<"0">>, CP05_TCR0),
    TupleKey(<<"C", "P", "0", "6">>, <<"0">>, CP06_TCR0),
    TupleKey(<<"C", "P", "0", "6">>, <<"1">>, CP06_TCR1),
    TupleKey(<<"C", "P", "0", "7">>, <<"0">>, CP07_TCR0),
    TupleKey(<<"C", "P", "0", "7">>, <<"8">>, CP07_TCR8),
    TupleKey(<<"C", "P", "0", "8">>, <<"0">>, CP08_TCR0),
    TupleKey(<<"C", "P", "0", "9">>, <<"0">>, CP09_TCR0),
    TupleKey(<<"C", "P", "0", "9">>, <<"4">>, CP09_TCR4),
    TupleKey(<<"C", "P", "1", "0">>, <<"0">>, CP10_TCR0),
    TupleKey(<<"C", "P", "1", "2">>, <<"0">>, CP12_TCR0) >>

\* ------------------------------------------------------------------------
\* The registry (services.py)
\* ------------------------------------------------------------------------

\* d.get(name) for the name keys of a dictionary given by its items
NameLookup(items, name) ==
  IF \E k \in 1..Len(items) : ~items[k].is_tuple /\ items[k].key = name
  THEN items[CHOOSE k \in 1..Len(items) :
               ~items[k].is_tuple /\ items[k].key = name].def
  ELSE None

\* TCR_DEFINITIONS.get(name) for a name key
TCR_DEFINITIONS_get(name) == NameLookup(TCR_DEFINITIONS, name)

\* Mutant of LookupFilter: every item of TCR_DEFINITIONS passes, also those
\* under a name.
LookupFilter_AllItems(e) == TRUE

\* The filter of the comprehension that builds TCR_LOOKUP_MAP.
LookupFilter(e) ==
  /\ e.is_tuple
  /\ Len(e.key) = 2
  /\ ~endswith(e.key[1], <<"_", "T", "C", "R", "9">>)

\* The dictionary built from the filtered items: the key is (application
\* code, sequence) of the schema object; a later item replaces an earlier
\* one with the same key.
LookupDict(items) ==
  LET keyOf(e) == <<e.def.application_code, e.def.tcr_sequence>>
      last(key) == CHOOSE k \in 1..Len(items) :
                     /\ keyOf(items[k]) = key
                     /\ \A j \in (k + 1)..Len(items) : keyOf(items[j]) # key
  IN  [key \in {keyOf(items[k]) : k \in 1..Len(items)} |-> items[last(key)].def]

\* TCR_LOOKUP_MAP
TCR_LOOKUP_MAP == LookupDict(SelectSeq(TCR_DEFINITIONS, LookupFilter))

\* TCR_LOOKUP_MAP.get(key)
TCR_LOOKUP_MAP_get(key) ==
  IF key \in DOMAIN TCR_LOOKUP_MAP THEN TCR_LOOKUP_MAP[key] ELSE None

\* ------------------------------------------------------------------------
\* Input lines
\* ------------------------------------------------------------------------

CP01 == <<"C", "P", "0", "1">>
CP02 == <<"C", "P", "0", "2">>
CP11 == <<"C", "P", "1", "1">>
HEDR == <<"H", "E", "D", "R">>
TRLR == <<"T", "R", "L", "R">>

M1 == <<"M", "1">>
M2 == <<"M", "2">>

\* A zero-sequence line: type 33, qualifier 0, sequence 0, twelve columns
\* of identifiers, the application group in columns 17-20 and the text that
\* starts in column 21.
ZeroLine(app, rest) == <<"3", "3", "0", "0">> \o Spaces(12) \o app \o rest

\* A line with sequence tag seq and the text that starts in column 5.
SeqLine(seq, rest) == <<"3", "3", "0", seq>> \o rest

\* A line with a non-zero sequence tag that carries an application group in
\* columns 17-20 and text from column 21, as zero-sequence lines do.
SeqLineWithGroup(seq, app, rest) == SeqLine(seq, Spaces(12) \o app \o rest)

\* The lines a file is made of.
InputLines ==
  { <<>>,
    <<" ", " ">>,
    ZeroLine(HEDR, <<>>),
    ZeroLine(TRLR, <<>>),
    ZeroLine(CP01, M1),
    ZeroLine(CP01, M2),
    ZeroLine(CP02, M1),
    ZeroLine(CP01, <<>>),
    ZeroLine(CP11, M2),
    SeqLine("1", <<>>),
    SeqLineWithGroup("1", CP01, M2),
    SeqLine("3", <<"C", "o", "l">>),
    SeqLine("3", <<"J", "P", "N">>),
    SeqLine("3", <<"M", "E", "X">>),
    SeqLine("3", <<"U", "S", "A">>),
    SeqLine("3", <<>>),
    SeqLine("9", <<"x">>) }

\* ------------------------------------------------------------------------
\* parse_tc33_file
\* ------------------------------------------------------------------------

VARIABLES
  lines,                          \* the lines of the file read so far
  header,                         \* None or a record
  trailer,                        \* None or a record
  transactions,                   \* the defaultdict, in insertion order
  current_message_id,             \* None or Str
  current_transaction_tcr_cache,  \* list of records
  active_transaction_cp_code,     \* None or Str
  pc,                             \* "loop" while lines are read, then "done"
  result,                         \* None or the returned dictionary
  field_case,                     \* get_field_value: index of (self, field_name)
  field_line,                     \* get_field_value: the argument line
  field_value,                    \* get_field_value: None or what the call gave
  calls,                          \* two calls at once: the frame of each call
  registry,                       \* two calls at once: the module-level objects
  workbook,                       \* generate_excel_file: None or what it built
  line_parsed_data                     \* parse_tc33_line: None or what it returned

vars == <<lines, header, trailer, transactions, current_message_id,
          current_transaction_tcr_cache, active_transaction_cp_code, pc, result,
          field_case, field_line, field_value, calls, registry, workbook,
          line_parsed_data>>

\* What a single call of parse_tc33_file leaves alone.
others == <<calls, registry, workbook, line_parsed_data>>

\* The local variables the resolution step of the loop body may assign.
Context(mid, cache, cp) == [mid |-> mid, cache |-> cache, cp |-> cp]

\* current_message_id = None; cache = []; active_transaction_cp_code = None
ResetContext == Context(None, <<>>, None)

\* Keys of the dictionary d (a sequence of key/value items).
Keys(d) == {d[k].key : k \in 1..Len(d)}

\* d[key] for a key that is present
Bucket(d, key) == d[CHOOSE k \in 1..Len(d) : d[k].key = key].value

\* Mutant of DictAppend: a list of pairs instead of a dictionary, a new
\* bucket is added even if the key is present.
DictAppend_NoMerge(d, key, x) ==
  Append(d, [key |-> key, value |-> <<x>>])

\* Mutant of DictAppend: the bucket of a present key is replaced.
DictAppend_Replace(d, key, x) ==
  IF \E k \in 1..Len(d) : d[k].key = key
  THEN [k \in 1..Len(d) |->
          IF d[k].key = key THEN [key |-> key, value |-> <<x>>] ELSE d[k]]
  ELSE Append(d, [key |-> key, value |-> <<x>>])

\* Mutant of DictAppend: the record is inserted at the head of the bucket.
DictAppend_Prepend(d, key, x) ==
  IF \E k \in 1..Len(d) : d[k].key = key
  THEN [k \in 1..Len(d) |->
          IF d[k].key = key
          THEN [key |-> key, value |-> <<x>> \o d[k].value]
          ELSE d[k]]
  ELSE Append(d, [key |-> key, value |-> <<x>>])

\* Mutant of DictAppend: a new key is inserted before the keys present.
DictAppend_NewKeyFirst(d, key, x) ==
  IF \E k \in 1..Len(d) : d[k].key = key
  THEN [k \in 1..Len(d) |->
          IF d[k].key = key
          THEN [key |-> key, value |-> Append(d[k].value, x)]
          ELSE d[k]]
  ELSE <<[key |-> key, value |-> <<x>>]>> \o d

\* Mutant of DictAppend: the bucket keeps only its last record before the
\* new one.
DictAppend_Truncate(d, key, x) ==
  IF \E k \in 1..Len(d) : d[k].key = key
  THEN [k \in 1..Len(d) |->
          IF d[k].key = key
          THEN [key |-> key, value |-> <<d[k].value[Len(d[k].value)], x>>]
          ELSE d[k]]
  ELSE Append(d, [key |-> key, value |-> <<x>>])

\* transactions[key].append(x) on a defaultdict(list)
DictAppend(d, key, x) ==
  IF \E k \in 1..Len(d) : d[k].key = key
  THEN [k \in 1..Len(d) |->
          IF d[k].key = key
          THEN [key |-> key, value |-> Append(d[k].value, x)]
          ELSE d[k]]
  ELSE Append(d, [key |-> key, value |-> <<x>>])

\* Mutant of MessageIdTransition: every non-empty identifier starts a new
\* transaction, also the one that is active.
MessageIdTransition_AlwaysNew(msg_id_from_tcr0, current_line_app_code, ctx) ==
  IF msg_id_from_tcr0.t = "raise" THEN ResetContext
  ELSE IF ~Truthy(msg_id_from_tcr0) THEN ResetContext
  ELSE Context(msg_id_from_tcr0, <<>>, PyStr(current_line_app_code))

\* Mutant of MessageIdTransition: an empty identifier leaves the context as
\* it is.
MessageIdTransition_KeepOnEmpty(msg_id_from_tcr0, current_line_app_code, ctx) ==
  IF msg_id_from_tcr0.t = "raise" THEN ResetContext
  ELSE IF ~Truthy(msg_id_from_tcr0) THEN ctx
  ELSE IF ctx.mid = None \/ msg_id_from_tcr0 # ctx.mid
  THEN Context(msg_id_from_tcr0, <<>>, PyStr(current_line_app_code))
  ELSE IF startswith(current_line_app_code, <<"C", "P">>)
  THEN Context(ctx.mid, ctx.cache, PyStr(current_line_app_code))
  ELSE ctx

\* Mutant of MessageIdTransition: a new transaction keeps the cache of the
\* one before.
MessageIdTransition_KeepCache(msg_id_from_tcr0, current_line_app_code, ctx) ==
  IF msg_id_from_tcr0.t = "raise" THEN ResetContext
  ELSE IF ~Truthy(msg_id_from_tcr0) THEN ResetContext
  ELSE IF ctx.mid = None \/ msg_id_from_tcr0 # ctx.mid
  THEN Context(msg_id_from_tcr0, ctx.cache, PyStr(current_line_app_code))
  ELSE IF startswith(current_line_app_code, <<"C", "P">>)
  THEN Context(ctx.mid, ctx.cache, PyStr(current_line_app_code))
  ELSE ctx

\* Mutant of MessageIdTransition: an empty identifier resets the message id
\* and the cache and keeps the active group.
MessageIdTransition_ResetIdOnly(msg_id_from_tcr0, current_line_app_code, ctx) ==
  IF msg_id_from_tcr0.t = "raise" THEN ResetContext
  ELSE IF ~Truthy(msg_id_from_tcr0) THEN Context(None, <<>>, ctx.cp)
  ELSE IF ctx.mid = None \/ msg_id_from_tcr0 # ctx.mid
  THEN Context(msg_id_from_tcr0, <<>>, PyStr(current_line_app_code))
  ELSE IF startswith(current_line_app_code, <<"C", "P">>)
  THEN Context(ctx.mid, ctx.cache, PyStr(current_line_app_code))
  ELSE ctx

\* Mutant of MessageIdTransition: a new transaction keeps the active group
\* of the one before.
MessageIdTransition_KeepGroup(msg_id_from_tcr0, current_line_app_code, ctx) ==
  IF msg_id_from_tcr0.t = "raise" THEN ResetContext
  ELSE IF ~Truthy(msg_id_from_tcr0) THEN ResetContext
  ELSE IF ctx.mid = None
  THEN Context(msg_id_from_tcr0, <<>>, PyStr(current_line_app_code))
  ELSE IF msg_id_from_tcr0 # ctx.mid
  THEN Context(msg_id_from_tcr0, <<>>, ctx.cp)
  ELSE IF startswith(current_line_app_code, <<"C", "P">>)
  THEN Context(ctx.mid, ctx.cache, PyStr(current_line_app_code))
  ELSE ctx

\* Lines 82-95: the transition on the decoded message identifier of a
\* zero-sequence line.
MessageIdTransition(msg_id_from_tcr0, current_line_app_code, ctx) ==
  IF msg_id_from_tcr0.t = "raise" THEN ResetContext
  ELSE IF ~Truthy(msg_id_from_tcr0) THEN ResetContext
  ELSE IF ctx.mid = None \/ msg_id_from_tcr0 # ctx.mid
  THEN Context(msg_id_from_tcr0, <<>>, PyStr(current_line_app_code))
  ELSE IF startswith(current_line_app_code, <<"C", "P">>)
  THEN Context(ctx.mid, ctx.cache, PyStr(current_line_app_code))
  ELSE ctx

\* Mutant of ZeroContext: a header or trailer line leaves the context as it
\* is.
ZeroContext_KeepOnFileLevel(tcr_def, raw_line_padded, current_line_app_code, ctx) ==
  IF tcr_def = None THEN ctx
  ELSE IF ~HasField(tcr_def, "Message Identifier") THEN ctx
  ELSE MessageIdTransition(
         get_field_value(tcr_def, raw_line_padded, "Message Identifier"),
         current_line_app_code, ctx)

\* Mutant of ZeroContext: an unregistered group resets the context.
ZeroContext_ResetUnknown(tcr_def, raw_line_padded, current_line_app_code, ctx) ==
  IF tcr_def = None THEN ResetContext
  ELSE IF ~HasField(tcr_def, "Message Identifier") THEN ResetContext
  ELSE MessageIdTransition(
         get_field_value(tcr_def, raw_line_padded, "Message Identifier"),
         current_line_app_code, ctx)

\* Lines 77-107: the context after a zero-sequence line that resolved to
\* tcr_def (None when the group is not registered).
ZeroContext(tcr_def, raw_line_padded, current_line_app_code, ctx) ==
  IF tcr_def = None THEN ctx
  ELSE IF ~HasField(tcr_def, "Message Identifier") THEN ResetContext
  ELSE MessageIdTransition(
         get_field_value(tcr_def, raw_line_padded, "Message Identifier"),
         current_line_app_code, ctx)

\* The outcome of schema resolution: the schema (or None), the context and
\* whether the loop continues with the next line at once.
Resolved(tcr_def, ctx, skip) == [tcr_def |-> tcr_def, ctx |-> ctx, skip |-> skip]

\* Lines 73-107: the branch seq_num == '0'.
ResolveZero(raw_line_padded, current_line_app_code, seq_num, ctx) ==
  Resolved(TCR_LOOKUP_MAP_get(<<current_line_app_code, seq_num>>),
           ZeroContext(TCR_LOOKUP_MAP_get(<<current_line_app_code, seq_num>>),
                       raw_line_padded, current_line_app_code, ctx),
           FALSE)

\* Lines 117-120: the country code after the TCR-3 record at position k
\* of the cache was read; the scan stops at a non-empty code.
RECURSIVE ScanCountry(_, _, _)
ScanFound(cache, k, c) ==
  IF Truthy(c) THEN PyStr(upper(strip(c.v)))
  ELSE ScanCountry(cache, k + 1, c)

\* Lines 114-120: the scan of the cache for the ship-to country of a TCR-3
\* record; country_code is the value the loop leaves behind.
ScanCountry(cache, k, country_code) ==
  IF k > Len(cache) THEN country_code
  ELSE IF cache[k].tcr_definition_name = <<"C", "P", "0", "1", "_", "T", "C", "R", "3">>
  THEN ScanFound(cache, k,
                 IF "Ship to Country Code" \in DOMAIN cache[k].parsed_fields
                 THEN cache[k].parsed_fields["Ship to Country Code"]
                 ELSE None)
  ELSE ScanCountry(cache, k + 1, country_code)

\* Lines 122-133: the variant chosen for the country code.
Tcr9Variant(country_code) ==
  IF country_code = PyStr(<<"C", "O", "L">>) THEN TCR_DEFINITIONS_get("CP01_TCR9_COL")
  ELSE IF country_code = PyStr(<<"J", "P", "N">>) THEN TCR_DEFINITIONS_get("CP01_TCR9_JPN")
  ELSE IF country_code = PyStr(<<"M", "E", "X">>) THEN TCR_DEFINITIONS_get("CP01_TCR9_MEX")
  ELSE CP01_TCR9_GENERIC

\* Lines 113-133: the contextual override of a failed primary lookup.
Override(primary, seq_num, ctx) ==
  IF primary = None /\ seq_num = <<"9">> /\ ctx.cp.v = CP01
  THEN Tcr9Variant(ScanCountry(ctx.cache, 1, None))
  ELSE primary

\* Mutant of SkipUnresolved: a line without a schema ends the transaction.
SkipUnresolved_Reset(tcr_def, ctx) ==
  Resolved(tcr_def, IF tcr_def = None THEN ResetContext ELSE ctx, tcr_def = None)

\* Lines 135-137: a line without a schema is skipped.
SkipUnresolved(tcr_def, ctx) == Resolved(tcr_def, ctx, tcr_def = None)

\* Mutant of ResolveNonZero: no schema is found for a sequence-'9' line.
ResolveNonZero_NoTcr9(seq_num, ctx) ==
  SkipUnresolved(IF seq_num = <<"9">> THEN None
                 ELSE TCR_LOOKUP_MAP_get(<<ctx.cp.v, seq_num>>), ctx)

\* Lines 109-137: the branch of a non-zero sequence with an active
\* transaction.
ResolveNonZero(seq_num, ctx) ==
  SkipUnresolved(Override(TCR_LOOKUP_MAP_get(<<ctx.cp.v, seq_num>>), seq_num, ctx), ctx)

\* Mutant of Resolve: a non-zero line that carries a group in columns 17-20
\* is resolved with that group.
Resolve_OwnGroup(raw_line_padded, current_line_app_code, seq_num, ctx) ==
  IF seq_num = <<"0">>
  THEN ResolveZero(raw_line_padded, current_line_app_code, seq_num, ctx)
  ELSE IF Truthy(ctx.mid) /\ Truthy(ctx.cp)
  THEN SkipUnresolved(
         TCR_LOOKUP_MAP_get(<<IF current_line_app_code # <<>>
                              THEN current_line_app_code ELSE ctx.cp.v, seq_num>>), ctx)
  ELSE Resolved(None, ctx, TRUE)

\* Lines 73-141: schema resolution of one non-blank line.
Resolve(raw_line_padded, current_line_app_code, seq_num, ctx) ==
  IF seq_num = <<"0">>
  THEN ResolveZero(raw_line_padded, current_line_app_code, seq_num, ctx)
  ELSE IF Truthy(ctx.mid) /\ Truthy(ctx.cp)
  THEN ResolveNonZero(seq_num, ctx)
  ELSE Resolved(None, ctx, TRUE)

\* Lines 146-147: the decoded fields of a line.
FieldValues(tcr_def, raw_line_padded) ==
  [n \in FieldNames(tcr_def) |-> get_field_value(tcr_def, raw_line_padded, n)]

\* Lines 145-157: an exception while the fields are decoded.
CatchDecode(parsed_fields) ==
  IF \E n \in DOMAIN parsed_fields : parsed_fields[n].t = "raise"
  THEN Raise("ValueError")
  ELSE [t |-> "dict", v |-> parsed_fields]

\* Lines 144-157: the decoded fields, or the exception that makes the loop
\* skip the line (tcr_def is None after an unrecognised zero-sequence line).
ParseFields(tcr_def, raw_line_padded) ==
  IF tcr_def = None THEN Raise("AttributeError")
  ELSE CatchDecode(FieldValues(tcr_def, raw_line_padded))

\* Lines 159-167: the decoded record.  schema (the identity of the schema
\* object that decoded the line) and line_num are history fields.
TcrInfo(tcr_def, tx_code, tx_qualifier, seq_num, parsed_fields, raw_line_stripped, line_num) ==
  [tcr_definition_name |-> ClassName(tcr_def),
   tcr_type_code       |-> tx_code,
   tcr_qualifier       |-> tx_qualifier,
   tcr_sequence        |-> seq_num,
   application_code    |-> tcr_def.application_code,
   parsed_fields       |-> parsed_fields,
   raw_line            |-> raw_line_stripped,
   schema              |-> tcr_def.id,
   line_num            |-> line_num]

\* Mutant of Store: the trailer is written to the header slot.
Store_TrailerAsHeader(s, tcr_def, tcr_info) ==
  IF tcr_def.id = TCR_HEADER.id
  THEN [s EXCEPT !.header = tcr_info]
  ELSE IF tcr_def.id = TCR_TRAILER.id
  THEN [s EXCEPT !.header = tcr_info]
  ELSE IF Truthy(s.ctx.mid)
  THEN [s EXCEPT
          !.transactions = DictAppend(s.transactions, s.ctx.mid, tcr_info),
          !.ctx = Context(s.ctx.mid, Append(s.ctx.cache, tcr_info), s.ctx.cp)]
  ELSE s

\* Mutant of Store: a transaction record is also appended to the first
\* bucket of the mapping.
Store_AlsoFirstBucket(s, tcr_def, tcr_info) ==
  IF tcr_def.id = TCR_HEADER.id
  THEN [s EXCEPT !.header = tcr_info]
  ELSE IF tcr_def.id = TCR_TRAILER.id
  THEN [s EXCEPT !.trailer = tcr_info]
  ELSE IF Truthy(s.ctx.mid)
  THEN [s EXCEPT
          !.transactions =
             IF s.transactions # <<>> /\ s.transactions[1].key # s.ctx.mid
             THEN DictAppend(DictAppend(s.transactions, s.transactions[1].key, tcr_info),
                             s.ctx.mid, tcr_info)
             ELSE DictAppend(s.transactions, s.ctx.mid, tcr_info),
          !.ctx = Context(s.ctx.mid, Append(s.ctx.cache, tcr_info), s.ctx.cp)]
  ELSE s

\* Mutant of Store: the first header and the first trailer are kept.
Store_FirstWins(s, tcr_def, tcr_info) ==
  IF tcr_def.id = TCR_HEADER.id
  THEN IF s.header = None THEN [s EXCEPT !.header = tcr_info] ELSE s
  ELSE IF tcr_def.id = TCR_TRAILER.id
  THEN IF s.trailer = None THEN [s EXCEPT !.trailer = tcr_info] ELSE s
  ELSE IF Truthy(s.ctx.mid)
  THEN [s EXCEPT
          !.transactions = DictAppend(s.transactions, s.ctx.mid, tcr_info),
          !.ctx = Context(s.ctx.mid, Append(s.ctx.cache, tcr_info), s.ctx.cp)]
  ELSE s

\* Lines 170-182: where the decoded record goes.  s holds header, trailer,
\* transactions and the context after resolution.
Store(s, tcr_def, tcr_info) ==
  IF tcr_def.id = TCR_HEADER.id
  THEN [s EXCEPT !.header = tcr_info]
  ELSE IF tcr_def.id = TCR_TRAILER.id
  THEN [s EXCEPT !.trailer = tcr_info]
  ELSE IF Truthy(s.ctx.mid)
  THEN [s EXCEPT
          !.transactions = DictAppend(s.transactions, s.ctx.mid, tcr_info),
          !.ctx = Context(s.ctx.mid, Append(s.ctx.cache, tcr_info), s.ctx.cp)]
  ELSE s

\* raw_line.ljust(168, ' ')
Padded(raw_line) == ljust(raw_line, RecordWidth)

\* raw_line_padded[0:2].strip()
TxCode(raw_line_padded) == strip(Slice(raw_line_padded, 0, 2))

\* raw_line_padded[2:3].strip()
TxQualifier(raw_line_padded) == strip(Slice(raw_line_padded, 2, 3))

\* Mutant of SeqNum: the slice is one column to the left.
SeqNum_WrongColumn(raw_line_padded) == strip(Slice(raw_line_padded, 2, 3))

\* raw_line_padded[3:4].strip()
SeqNum(raw_line_padded) == strip(Slice(raw_line_padded, 3, 4))

\* raw_line_padded[16:20].strip()
AppCode(raw_line_padded) == strip(Slice(raw_line_padded, 16, 20))

\* Mutant of CatchException: the handler catches ValueError only, any other
\* exception leaves parse_tc33_file.
CatchException_ValueErrorOnly(e, s) ==
  IF e.kind = "ValueError" THEN s ELSE [s EXCEPT !.raised = e]

\* Lines 155-157: "except Exception" catches e and the loop continues with
\* the next line; nothing has been assigned.
CatchException(e, s) == s

\* Lines 144-182: decoding and storing, once the fields are parsed (pf).
\* s already holds the context after resolution.
StoreParsed(pf, tcr_def, raw_line_padded, line_num, s) ==
  IF pf.t = "raise" THEN CatchException(pf, s)
  ELSE Store(s, tcr_def,
             TcrInfo(tcr_def, TxCode(raw_line_padded), TxQualifier(raw_line_padded),
                     SeqNum(raw_line_padded), pf.v, strip(raw_line_padded), line_num))

\* Mutant of AfterResolve: the record is stored under the context of before
\* the line, and the context of the line is assigned after it.
AfterResolve_StoreThenSwitch(r, raw_line_padded, line_num, s) ==
  IF r.skip THEN [s EXCEPT !.ctx = r.ctx]
  ELSE [StoreParsed(ParseFields(r.tcr_def, raw_line_padded), r.tcr_def,
                    raw_line_padded, line_num, s) EXCEPT !.ctx = r.ctx]

\* Lines 70-182: the rest of the body once the schema is resolved (r).
AfterResolve(r, raw_line_padded, line_num, s) ==
  IF r.skip THEN [s EXCEPT !.ctx = r.ctx]
  ELSE StoreParsed(ParseFields(r.tcr_def, raw_line_padded), r.tcr_def,
                   raw_line_padded, line_num, [s EXCEPT !.ctx = r.ctx])

\* Mutant of PaddedBody: a line whose record type is not 33 is skipped.
PaddedBody_TypeChecked(raw_line_padded, line_num, s) ==
  IF strip(raw_line_padded) = <<>> THEN s
  ELSE IF TxCode(raw_line_padded) # <<"3", "3">> THEN s
  ELSE AfterResolve(Resolve(raw_line_padded, AppCode(raw_line_padded),
                            SeqNum(raw_line_padded), s.ctx),
                    raw_line_padded, line_num, s)

\* Mutant of PaddedBody: a blank line ends the transaction.
PaddedBody_BlankResets(raw_line_padded, line_num, s) ==
  IF strip(raw_line_padded) = <<>> THEN [s EXCEPT !.ctx = ResetContext]
  ELSE AfterResolve(Resolve(raw_line_padded, AppCode(raw_line_padded),
                            SeqNum(raw_line_padded), s.ctx),
                    raw_line_padded, line_num, s)

\* Lines 59-182: the body on the padded line.
PaddedBody(raw_line_padded, line_num, s) ==
  IF strip(raw_line_padded) = <<>> THEN s
  ELSE AfterResolve(Resolve(raw_line_padded, AppCode(raw_line_padded),
                            SeqNum(raw_line_padded), s.ctx),
                    raw_line_padded, line_num, s)

\* The local variables of parse_tc33_file that the loop body assigns, and
\* the exception that left the body (None when there is none).
Locals(h, t, tx, ctx) ==
  [header |-> h, trailer |-> t, transactions |-> tx, ctx |-> ctx, raised |-> None]

\* Lines 58-182: the state of the loop after the body has run on raw_line.
Body(raw_line, line_num, s) == PaddedBody(Padded(raw_line), line_num, s)

\* No call of get_field_value on its own is under way.
NoFieldCall ==
  /\ field_case = 0
  /\ field_line = <<>>
  /\ field_value = None

\* No second call is under way and nothing has been exported.
NoOtherCall ==
  /\ calls = <<>>
  /\ registry = None
  /\ workbook = None
  /\ line_parsed_data = None

Init ==
  /\ lines = <<>>
  /\ header = None
  /\ trailer = None
  /\ transactions = <<>>
  /\ current_message_id = None
  /\ current_transaction_tcr_cache = <<>>
  /\ active_transaction_cp_code = None
  /\ pc = "loop"
  /\ result = None
  /\ NoFieldCall
  /\ NoOtherCall

\* The assignment of the locals after an iteration; an exception that left
\* the body ends the call.
Assign(s) ==
  /\ pc' = IF s.raised = None THEN "loop" ELSE "raised"
  /\ header' = s.header
  /\ trailer' = s.trailer
  /\ transactions' = s.transactions
  /\ current_message_id' = s.ctx.mid
  /\ current_transaction_tcr_cache' = s.ctx.cache
  /\ active_transaction_cp_code' = s.ctx.cp

\* One iteration of the loop over the lines of the file.
ProcessLine(raw_line) ==
  /\ pc = "loop"
  /\ Len(lines) < MaxLines
  /\ Assign(Body(raw_line, Len(lines),
                 Locals(header, trailer, transactions,
                        Context(current_message_id, current_transaction_tcr_cache,
                                active_transaction_cp_code))))
  /\ lines' = Append(lines, raw_line)
  /\ UNCHANGED <<result, field_case, field_line, field_value>>
  /\ UNCHANGED others

\* The end of the input: the dictionary is returned.
Return ==
  /\ pc = "loop"
  /\ pc' = "done"
  /\ result' = [header |-> header, trailer |-> trailer, transactions |-> transactions]
  /\ UNCHANGED <<lines, header, trailer, transactions, current_message_id,
                 current_transaction_tcr_cache, active_transaction_cp_code,
                 field_case, field_line, field_value>>
  /\ UNCHANGED others

Next ==
  \/ \E raw_line \in InputLines : ProcessLine(raw_line)
  \/ Return

Spec == Init /\ [][Next]_vars


\* The interpreter always takes the next step of the call: the loop goes on
\* while there are lines and the function returns after the last one.
FairSpec == Spec /\ WF_vars(Next)

\* ------------------------------------------------------------------------
\* TCRDefinition.get_field_value called on its own
\* ------------------------------------------------------------------------

\* The schemas and field names of the calls: one field of each data format.
FieldCases ==
  << <<CP01_TCR0, "Destination Identifier">>,
     <<CP01_TCR9_COL, "Installment Count">>,
     <<CP01_TCR3, "Ship to Country Code">>,
     <<CP01_TCR4, "Merchant Name">>,
     <<CP02_TCR1, "Terminal Verification Results">> >>

\* self of call number c.
CaseDef(c) == FieldCases[c][1]

\* The field of call number c.
CaseField(c) == FieldOf(FieldCases[c][1], FieldCases[c][2])

\* The characters of the texts.
Alphabet == {" ", "0", "1", "5", ".", "-", "A"}

\* The texts of up to MaxText characters.
Texts == UNION {[1..n -> Alphabet] : n \in 0..MaxText}

\* The lines of the calls: a text at the first column of the field, or at
\* the first column of the line.
FieldLines(c) ==
  {Spaces(CaseField(c).python_start) \o text : text \in Texts} \cup Texts

FieldInit ==
  /\ lines = <<>>
  /\ header = None
  /\ trailer = None
  /\ transactions = <<>>
  /\ current_message_id = None
  /\ current_transaction_tcr_cache = <<>>
  /\ active_transaction_cp_code = None
  /\ pc = "call"
  /\ result = None
  /\ field_case \in 1..Len(FieldCases)
  /\ field_line \in FieldLines(field_case)
  /\ field_value = None
  /\ NoOtherCall

\* The call self.get_field_value(line, field_name).
GetFieldValue ==
  /\ pc = "call"
  /\ field_value' = get_field_value(CaseDef(field_case), field_line,
                                    FieldCases[field_case][2])
  /\ pc' = "returned"
  /\ UNCHANGED <<lines, header, trailer, transactions, current_message_id,
                 current_transaction_tcr_cache, active_transaction_cp_code,
                 result, field_case, field_line>>
  /\ UNCHANGED others

FieldNext == GetFieldValue

FieldSpec == FieldInit /\ [][FieldNext]_vars

\* ------------------------------------------------------------------------
\* Two calls of parse_tc33_file at once
\* ------------------------------------------------------------------------

\* The lines of the files of the two calls.
CallLines ==
  { ZeroLine(CP01, M1),
    ZeroLine(CP01, M2),
    SeqLine("1", <<>>) }

\* Lines 47-54: the frame of a call that has read nothing. header, trailer,
\* transactions and the three context variables are names of the function
\* body, so each call has its own.
NewFrame ==
  [lines |-> <<>>, locals |-> Locals(None, None, <<>>, ResetContext),
   pc |-> "loop", result |-> None, overlapped |-> FALSE]

\* Lines 26-30 and tc33_definitions.py 832-892: the objects bound to
\* module-level names, which every call reads.
ModuleObjects ==
  [TCR_DEFINITIONS |-> TCR_DEFINITIONS, TCR_LOOKUP_MAP |-> TCR_LOOKUP_MAP]

\* A variant where the context variables are module-level names, bound to
\* what the first call assigned.
FrameLocals_SharedContext(frames, i) ==
  [frames[i].locals EXCEPT !.ctx = frames[1].locals.ctx]

\* The values the loop body of call i reads: those of its own frame.
FrameLocals(frames, i) == frames[i].locals

\* Call number i is between its first line and its return.
MidFile(frames, i) == frames[i].pc = "loop" /\ frames[i].lines # <<>>

\* The frame after an iteration that left the locals s; overlapped records
\* that an iteration ran while the other call was between two of its own.
AfterBody(frame, raw_line, s, other_mid_file) ==
  [lines |-> Append(frame.lines, raw_line), locals |-> s,
   pc |-> IF s.raised = None THEN "loop" ELSE "raised", result |-> frame.result,
   overlapped |-> frame.overlapped \/ other_mid_file]

\* Lines 187-191: the frame after the return statement.
AfterReturn(frame) ==
  [frame EXCEPT !.pc = "done",
                !.result = [header |-> frame.locals.header,
                            trailer |-> frame.locals.trailer,
                            transactions |-> frame.locals.transactions]]

ConcInit ==
  /\ lines = <<>>
  /\ header = None
  /\ trailer = None
  /\ transactions = <<>>
  /\ current_message_id = None
  /\ current_transaction_tcr_cache = <<>>
  /\ active_transaction_cp_code = None
  /\ pc = "calls"
  /\ result = None
  /\ NoFieldCall
  /\ calls = <<NewFrame, NewFrame>>
  /\ registry = ModuleObjects
  /\ workbook = None
  /\ line_parsed_data = None

\* What the steps of the two calls leave alone. No statement of
\* parse_tc33_file, parse of a field or lookup assigns to a module-level
\* name, to an item of the two dictionaries or to an attribute of a schema.
CallFrame ==
  <<lines, header, trailer, transactions, current_message_id,
    current_transaction_tcr_cache, active_transaction_cp_code, pc, result,
    field_case, field_line, field_value, registry, workbook, line_parsed_data>>

\* One iteration of the loop of call i.
CallStep(i, raw_line) ==
  /\ pc = "calls"
  /\ calls[i].pc = "loop"
  /\ Len(calls[i].lines) < MaxCallLines
  /\ calls' = [calls EXCEPT ![i] =
                 AfterBody(calls[i], raw_line,
                           Body(raw_line, Len(calls[i].lines), FrameLocals(calls, i)),
                           MidFile(calls, 3 - i))]
  /\ UNCHANGED CallFrame

\* Call i returns its dictionary.
CallReturn(i) ==
  /\ pc = "calls"
  /\ calls[i].pc = "loop"
  /\ calls' = [calls EXCEPT ![i] = AfterReturn(calls[i])]
  /\ UNCHANGED CallFrame

ConcNext ==
  \/ \E i \in 1..2 : \E raw_line \in CallLines : CallStep(i, raw_line)
  \/ \E i \in 1..2 : CallReturn(i)

ConcSpec == ConcInit /\ [][ConcNext]_vars

\* ------------------------------------------------------------------------
\* generate_excel_file on the dictionary parse_tc33_file returned
\* ------------------------------------------------------------------------

\* The lines of an exported file: a header, two transactions, and CP01
\* sequence-1 lines with a Card ID in columns 70-71.
ExportLines ==
  { ZeroLine(HEDR, <<>>), ZeroLine(CP01, M1), ZeroLine(CP01, M2), SeqLine("1", <<>>) }
  \cup {SeqLine("1", Spaces(65) \o card) :
          card \in {<<"V", "I">>, <<"M", "C">>, <<"J", "C">>, <<"D", "C">>,
                    <<"A", "X">>, <<"D", "I">>, <<"v", "i">>, <<"Z", "Z">>}}

\* s.replace(old, new) for a non-empty old.
RECURSIVE replace(_, _, _)
replace(s, old, new) ==
  IF Len(s) < Len(old) THEN s
  ELSE IF startswith(s, old)
       THEN new \o replace(SubSeq(s, Len(old) + 1, Len(s)), old, new)
       ELSE <<s[1]>> \o replace(Tail(s), old, new)

\* Line 72: tcr_info.get('tcr_definition_name', '').replace('_TCR', '_TCR_')
Prefix(tcr_info) ==
  replace(tcr_info.tcr_definition_name, <<"_", "T", "C", "R">>,
          <<"_", "T", "C", "R", "_">>)

\* f"{prefix}_{k}": the characters of the prefix, an underscore and the
\* name k, which stands for its characters.
PrefixedKey(prefix, k) == prefix \o <<"_", k>>

\* Lines 78-81: the dictionary of the decoded fields under prefixed keys.
PrefixedFields(prefix, parsed_fields) ==
  [key \in {PrefixedKey(prefix, k) : k \in DOMAIN parsed_fields} |->
     parsed_fields[CHOOSE k \in DOMAIN parsed_fields : PrefixedKey(prefix, k) = key]]

\* Lines 86-89: card_id after a record of the transaction.
CardIdAfter(card_id, tcr_info) ==
  IF /\ tcr_info.tcr_definition_name
          = <<"C", "P", "0", "1", "_", "T", "C", "R", "1">>
     /\ "Card ID" \in DOMAIN tcr_info.parsed_fields
     /\ Truthy(tcr_info.parsed_fields["Card ID"])
  THEN upper(strip(tcr_info.parsed_fields["Card ID"].v))
  ELSE card_id

\* Lines 70-89: the row and card_id after one record; a key that is in the
\* row already gets the new value. The row is a mapping without the order
\* of its keys.
AfterRecord(acc, tcr_info, prefix) ==
  [row     |-> PrefixedFields(prefix, tcr_info.parsed_fields)
                 @@ (PrefixedKey(prefix, "Raw_Line") :> PyStr(tcr_info.raw_line))
                 @@ acc.row,
   card_id |-> CardIdAfter(acc.card_id, tcr_info)]

\* Lines 62-89: the row and card_id after the first n records of tcr_list.
RECURSIVE Combine(_, _, _)
Combine(msg_id, tcr_list, n) ==
  IF n = 0
  THEN [row     |-> (<<"Message Identifier">> :> msg_id),
        card_id |-> <<"U", "N", "K", "N", "O", "W", "N">>]
  ELSE AfterRecord(Combine(msg_id, tcr_list, n - 1), tcr_list[n], Prefix(tcr_list[n]))

\* Lines 92-107: the sheet of the list a transaction is appended to.
SheetOf(card_id) ==
  CASE card_id = <<"V", "I">> -> "VISA Transactions"
    [] card_id = <<"M", "C">> -> "Mastercard Transactions"
    [] card_id = <<"J", "C">> -> "JCB Transactions"
    [] card_id = <<"D", "C">> -> "Diners Club Transactions"
    [] card_id = <<"A", "X">> -> "AX Transactions"
    [] card_id = <<"D", "I">> -> "Discover Transactions"
    [] OTHER                  -> "Other Transactions"

\* Lines 92-107: what a transaction adds to the list of the sheet name.
RowFor(name, acc) ==
  IF SheetOf(acc.card_id) # name THEN <<>>
  ELSE IF name = "Other Transactions"
       THEN << (<<"Identified Card ID (Other)">> :> PyStr(acc.card_id)) @@ acc.row >>
       ELSE << acc.row >>

\* Lines 53-107: the list of the sheet name after the first n transactions.
RECURSIVE SheetRows(_, _, _)
SheetRows(name, tx, n) ==
  IF n = 0 THEN <<>>
  ELSE SheetRows(name, tx, n - 1)
         \o RowFor(name, Combine(tx[n].key, tx[n].value, Len(tx[n].value)))

\* Lines 38-43: the rows of the summary for the header or the trailer, in
\* the order of the fields of its schema.
SummaryRows(category, tcr_info, tcr_def) ==
  IF tcr_info = None THEN <<>>
  ELSE [k \in 1..Len(tcr_def.fields) |->
          [Category |-> category, Field |-> tcr_def.fields[k].name,
           Value |-> tcr_info.parsed_fields[tcr_def.fields[k].name]]]

\* Lines 112-158: the message written to the sheet of an empty list.
NoRowsMessage ==
  [name \in {"VISA Transactions", "Mastercard Transactions", "AX Transactions",
             "JCB Transactions", "Diners Club Transactions",
             "Discover Transactions", "Other Transactions"} |->
     "No " \o SubSeq(name, 1, Len(name) - 13) \o " transactions found."]

\* Lines 45-49, 112-158: the frame written to a sheet.
Sheet(rows, message) ==
  IF rows = <<>> THEN << (<<"Message">> :> message) >> ELSE rows

\* Lines 26-165: (output, error) for the dictionary line_parsed_data.
generate_excel_file(parsed_data) ==
  IF /\ parsed_data.header = None
     /\ parsed_data.trailer = None
     /\ parsed_data.transactions = <<>>
  THEN [output |-> None,
        error  |-> "No valid TC-33 records found to generate Excel."]
  ELSE [output |->
          ("Total Amount and Count" :>
             Sheet(SummaryRows("Header", parsed_data.header, TCR_HEADER)
                     \o SummaryRows("Trailer", parsed_data.trailer, TCR_TRAILER),
                   "No Header or Trailer records found."))
          @@ [name \in DOMAIN NoRowsMessage |->
                Sheet(SheetRows(name, parsed_data.transactions,
                                Len(parsed_data.transactions)),
                      NoRowsMessage[name])],
        error  |-> None]

\* The view calls generate_excel_file on what parse_tc33_file returned.
GenerateExcel ==
  /\ pc = "done"
  /\ pc' = "exported"
  /\ workbook' = generate_excel_file(result)
  /\ UNCHANGED <<lines, header, trailer, transactions, current_message_id,
                 current_transaction_tcr_cache, active_transaction_cp_code,
                 result, field_case, field_line, field_value, calls, registry,
                 line_parsed_data>>

ExportNext ==
  \/ \E raw_line \in ExportLines : ProcessLine(raw_line)
  \/ Return
  \/ GenerateExcel

ExportSpec == Init /\ [][ExportNext]_vars


\* ------------------------------------------------------------------------
\* parse_tc33_line called on the line of a one-line file
\* ------------------------------------------------------------------------

\* d.get(key) for the tuple keys of a dictionary given by its items; of two
\* items with the same key the dictionary keeps the later one.
TupleLookup(items, key) ==
  IF \E k \in 1..Len(items) : items[k].is_tuple /\ items[k].key = key
  THEN items[CHOOSE k \in 1..Len(items) :
               /\ items[k].is_tuple /\ items[k].key = key
               /\ \A j \in (k + 1)..Len(items) :
                    ~(items[j].is_tuple /\ items[j].key = key)].def
  ELSE None

\* Lines 914-931: the schema for (application_code, seq_num).
LineDefinition(application_code, seq_num) ==
  IF seq_num = <<"0">> \/ application_code \in {HEDR, TRLR}
  THEN TupleLookup(TCR_DEFINITIONS, <<application_code, seq_num>>)
  ELSE IF /\ TupleLookup(TCR_DEFINITIONS, <<application_code, seq_num>>) = None
          /\ seq_num = <<"9">>
          /\ application_code = CP01
  THEN CP01_TCR9_GENERIC
  ELSE TupleLookup(TCR_DEFINITIONS, <<application_code, seq_num>>)

\* Lines 947-952: the value of field_name, None after an exception.
LineFieldValue(value) == IF value.t = "raise" THEN None ELSE value

\* Mutant of ParsedData: the fields are decoded from the first 168 columns
\* of the line.
ParsedData_CutAtWidth(tcr_def, raw_line) ==
  [n \in FieldNames(tcr_def) |->
     LineFieldValue(get_field_value(tcr_def, Slice(raw_line, 0, RecordWidth), n))]
  @@ ("TCR_Type" :> PyStr(strip(Slice(raw_line, 0, 2))))
  @@ ("TCR_Qualifier" :> PyStr(strip(Slice(raw_line, 2, 3))))
  @@ ("TCR_Sequence" :> PyStr(strip(Slice(raw_line, 3, 4))))
  @@ ("Application_Code" :> PyStr(strip(Slice(raw_line, 16, 20))))
  @@ ("TCR_Definition_Name" :> PyStr(ClassName(tcr_def)))
  @@ ("Raw_Line" :> PyStr(raw_line))

\* Lines 938-954: the returned dictionary.
ParsedData(tcr_def, raw_line) ==
  [n \in FieldNames(tcr_def) |->
     LineFieldValue(get_field_value(tcr_def, raw_line, n))]
  @@ ("TCR_Type" :> PyStr(strip(Slice(raw_line, 0, 2))))
  @@ ("TCR_Qualifier" :> PyStr(strip(Slice(raw_line, 2, 3))))
  @@ ("TCR_Sequence" :> PyStr(strip(Slice(raw_line, 3, 4))))
  @@ ("Application_Code" :> PyStr(strip(Slice(raw_line, 16, 20))))
  @@ ("TCR_Definition_Name" :> PyStr(ClassName(tcr_def)))
  @@ ("Raw_Line" :> PyStr(raw_line))

\* Lines 902-936: the schema the helper resolves for the stripped line,
\* None for an empty line and for a key that is not in the registry.
StrippedLineDefinition(raw_line) ==
  IF raw_line = <<>> THEN None
  ELSE LineDefinition(strip(Slice(raw_line, 16, 20)), strip(Slice(raw_line, 3, 4)))

\* Lines 895-954: parse_tc33_line(line).
parse_tc33_line(line) ==
  IF StrippedLineDefinition(strip(line)) = None THEN None
  ELSE [t |-> "dict", v |-> ParsedData(StrippedLineDefinition(strip(line)), strip(line))]

\* The application codes of the zero-sequence lines: the eleven transaction
\* groups and the two file-level codes of the registry, and a group that is
\* not registered.
LineGroups ==
  {e.key[1] : e \in {TCR_DEFINITIONS[k] : k \in {j \in 1..Len(TCR_DEFINITIONS) :
                        /\ TCR_DEFINITIONS[j].is_tuple
                        /\ TCR_DEFINITIONS[j].key[2] = <<"0">>}}} \cup {CP11}

\* The zero-sequence lines: without and with a Message Identifier.
PlainLines == {ZeroLine(app, rest) : app \in LineGroups, rest \in {<<>>, M1}}

\* The lines of the one-line files: a zero-sequence line as it is, followed
\* by spaces, filled to the record width and followed by text, with a space
\* instead of its first column and with a tab instead of its first column.
HelperLines ==
  PlainLines
  \cup {l \o <<" ", " ">> : l \in PlainLines}
  \cup {ljust(l, RecordWidth) \o <<"X", "Y", "Z">> : l \in PlainLines}
  \cup {<<" ">> \o Tail(l) : l \in PlainLines}
  \cup {<<"\t">> \o Tail(l) : l \in PlainLines}

\* The only iteration of the loop of parse_tc33_file on a one-line file.
ProcessOnlyLine(raw_line) ==
  /\ lines = <<>>
  /\ ProcessLine(raw_line)

\* The call parse_tc33_line(line) on the line of the file, after
\* parse_tc33_file returned.
ParseLine ==
  /\ pc = "done"
  /\ Len(lines) = 1
  /\ pc' = "line_parsed"
  /\ line_parsed_data' = parse_tc33_line(lines[1])
  /\ UNCHANGED <<lines, header, trailer, transactions, current_message_id,
                 current_transaction_tcr_cache, active_transaction_cp_code,
                 result, field_case, field_line, field_value, calls, registry,
                 workbook>>

LineNext ==
  \/ \E raw_line \in HelperLines : ProcessOnlyLine(raw_line)
  \/ Return
  \/ ParseLine

LineSpec == Init /\ [][LineNext]_vars

\* ------------------------------------------------------------------------
\* Vocabulary of the properties
\* ------------------------------------------------------------------------

\* The character in (1-based) column n of a line, after padding.
Col(raw_line, n) == Padded(raw_line)[n]

\* The text in columns from..to of a line, trimmed.
Cols(raw_line, from, to) == strip(SubSeq(Padded(raw_line), from, to))

IsBlank(raw_line) == \A k \in 1..Len(raw_line) : raw_line[k] \in Whitespace

\* A non-blank line whose sequence tag (column 4) is '0'.
IsZeroSeq(raw_line) == ~IsBlank(raw_line) /\ Col(raw_line, 4) = "0"

\* A non-blank line whose sequence tag is not '0'.
IsNonZeroSeq(raw_line) == ~IsBlank(raw_line) /\ Col(raw_line, 4) # "0"

\* The application group in columns 17-20.
GroupOf(raw_line) == Cols(raw_line, 17, 20)

\* The message identifier in columns 21-35.
MsgIdOf(raw_line) == Cols(raw_line, 21, 35)

\* The group has a zero-sequence entry in the primary index.
Registered(app) == <<app, <<"0">>>> \in DOMAIN TCR_LOOKUP_MAP

\* A zero-sequence line of a registered group that is a header or trailer.
IsFileLevelLine(raw_line) ==
  IsZeroSeq(raw_line) /\ GroupOf(raw_line) \in {HEDR, TRLR}

\* A zero-sequence line of a registered transaction group.
IsTransactionZero(raw_line) ==
  /\ IsZeroSeq(raw_line)
  /\ Registered(GroupOf(raw_line))
  /\ GroupOf(raw_line) \notin {HEDR, TRLR}

\* The step reads one more line of the file.
ReadsLine == pc = "loop" /\ pc' = "loop" /\ Len(lines') = Len(lines) + 1

\* The line read by the step.
NewLine == lines'[Len(lines')]

\* The last line read.
LastLine == lines[Len(lines)]

\* The step emitted a record for the line read, into the cache and at the
\* end of the bucket of the message id active after the step.
Emitted ==
  /\ Len(current_transaction_tcr_cache') >= 1
  /\ current_transaction_tcr_cache'[Len(current_transaction_tcr_cache')].line_num = Len(lines)
  /\ current_message_id' \in Keys(transactions')
  /\ LET b == Bucket(transactions', current_message_id')
     IN  b[Len(b)] = current_transaction_tcr_cache'[Len(current_transaction_tcr_cache')]

\* The record the step emitted.
EmittedRecord ==
  current_transaction_tcr_cache'[Len(current_transaction_tcr_cache')]

\* The step changed nothing but the position in the file.
Discarded ==
  UNCHANGED <<header, trailer, transactions, current_message_id,
              current_transaction_tcr_cache, active_transaction_cp_code>>

COL == <<"C", "O", "L">>
JPN == <<"J", "P", "N">>
MEX == <<"M", "E", "X">>

\* Positions in a list of records of the records decoded by CP01 TCR-3.
Tcr3Positions(records) ==
  {k \in 1..Len(records) : records[k].schema = "CP01_TCR3"}

\* 'Ship to Country Code' of a TCR-3 record, trimmed and upper-cased.
ShipTo(record) == upper(strip(record.parsed_fields["Ship to Country Code"].v))

\* The variant schema of a country code.
VariantOf(country) ==
  CASE country = COL -> CP01_TCR9_COL
    [] country = JPN -> CP01_TCR9_JPN
    [] country = MEX -> CP01_TCR9_MEX
    [] OTHER         -> CP01_TCR9_GENERIC

\* The step reads a sequence-'9' line while the active group is CP01.
ReadsTcr9InCP01 ==
  /\ ReadsLine
  /\ Col(NewLine, 4) = "9"
  /\ current_message_id # None
  /\ active_transaction_cp_code = PyStr(CP01)

\* ------------------------------------------------------------------------
\* Properties
\* ------------------------------------------------------------------------

\* C1: a sequence-'9' line read while the active group is CP01 and the
\* records emitted for the active transaction include a TCR-3 record whose
\* ship-to country is COL, JPN or MEX is decoded with the variant schema
\* of that country: the record has the fields of the variant.
C1_CountryVariantSelected ==
  [][ReadsTcr9InCP01 =>
       \A k \in Tcr3Positions(current_transaction_tcr_cache) :
         LET country == ShipTo(current_transaction_tcr_cache[k])
         IN  country \in {COL, JPN, MEX} =>
               /\ Emitted
               /\ DOMAIN EmittedRecord.parsed_fields = FieldNames(VariantOf(country))]_vars

\* C2: a sequence-'9' line read while the active group is CP01 is decoded
\* with the generic TCR-9 schema when the active transaction has no TCR-3
\* record or only TCR-3 records whose ship-to country is none of COL, JPN,
\* MEX.
C2_GenericWithoutCountry ==
  [][(/\ ReadsTcr9InCP01
      /\ \A k \in Tcr3Positions(current_transaction_tcr_cache) :
           ShipTo(current_transaction_tcr_cache[k]) \notin {COL, JPN, MEX})
     => /\ Emitted
        /\ EmittedRecord.schema = "CP01_TCR9_GENERIC"
        /\ DOMAIN EmittedRecord.parsed_fields = FieldNames(CP01_TCR9_GENERIC)]_vars

\* C2 witness: a generic TCR-9 record was emitted after a TCR-3 record of
\* another country.
C2_Witness ==
  LET c == current_transaction_tcr_cache
  IN  /\ Len(c) = 3
      /\ c[2].schema = "CP01_TCR3" /\ ShipTo(c[2]) = <<"U", "S", "A">>
      /\ c[3].schema = "CP01_TCR9_GENERIC"
      /\ c[3].line_num = Len(lines) - 1

\* The sequence tags other than '0' registered for CP01.
CP01Tags == {key[2] : key \in {x \in DOMAIN TCR_LOOKUP_MAP : x[1] = CP01}} \ {<<"0">>}

\* The file is one CP01 zero-sequence line with a message identifier and
\* then only lines with sequence tags registered for CP01.
SingleTransactionFile ==
  /\ Len(lines) >= 1
  /\ IsZeroSeq(lines[1]) /\ GroupOf(lines[1]) = CP01 /\ MsgIdOf(lines[1]) # <<>>
  /\ \A k \in 2..Len(lines) : ~IsBlank(lines[k]) /\ <<Col(lines[k], 4)>> \in CP01Tags

\* C3: such a file yields no header, no trailer and exactly one bucket,
\* keyed by the message identifier, with one record per line in file order.
C3_SingleTransactionResult ==
  (pc = "done" /\ SingleTransactionFile) =>
    /\ result.header = None
    /\ result.trailer = None
    /\ Len(result.transactions) = 1
    /\ result.transactions[1].key = PyStr(MsgIdOf(lines[1]))
    /\ LET b == result.transactions[1].value
       IN  /\ Len(b) = Len(lines)
           /\ \A k \in 1..Len(b) :
                /\ b[k].line_num = k - 1
                /\ b[k].raw_line = strip(lines[k])
                /\ b[k].tcr_sequence = <<Col(lines[k], 4)>>

\* C3 witness: the file TCR-0, TCR-1, TCR-9 was parsed.
C3_Witness ==
  /\ pc = "done"
  /\ SingleTransactionFile
  /\ Len(lines) = 3
  /\ Col(lines[2], 4) = "1"
  /\ Col(lines[3], 4) = "9"
  /\ Len(result.transactions[1].value) = 3

\* No two buckets of the dictionary d have the same key.
UniqueKeys(d) ==
  \A i \in 1..Len(d) : \A j \in 1..Len(d) : d[i].key = d[j].key => i = j

\* The step reads a zero-sequence line of a registered transaction group
\* with a non-empty message identifier.
ReadsTransactionZero ==
  /\ ReadsLine
  /\ IsTransactionZero(NewLine)
  /\ MsgIdOf(NewLine) # <<>>

\* The message identifier of the line read, as the key of its bucket.
NewKey == PyStr(MsgIdOf(NewLine))

\* The bucket of key in d, empty when there is none.
BucketOrEmpty(d, key) == IF key \in Keys(d) THEN Bucket(d, key) ELSE <<>>

\* Every bucket other than that of key is the same before and after the step.
OtherBucketsUnchanged(key) ==
  \A k \in Keys(transactions) \ {key} :
    k \in Keys(transactions') /\ Bucket(transactions', k) = Bucket(transactions, k)

\* C4: the transactions mapping never holds two buckets for one identifier,
\* and a zero-sequence line that starts a transaction with an identifier
\* that already has a bucket appends its record to that bucket.
C4_MergeSameIdentifier ==
  [][/\ UniqueKeys(transactions')
     /\ (/\ ReadsTransactionZero
         /\ NewKey # current_message_id
         /\ NewKey \in Keys(transactions))
        => /\ Emitted
           /\ Len(transactions') = Len(transactions)
           /\ Bucket(transactions', NewKey)
                = Append(Bucket(transactions, NewKey), EmittedRecord)
           /\ OtherBucketsUnchanged(NewKey)]_vars

\* C4 witness: the identifier of the first line reappeared in the third
\* line after another transaction, and both records are in one bucket.
C4_Witness ==
  /\ Len(lines) = 3
  /\ Len(transactions) = 2
  /\ Len(transactions[1].value) = 2
  /\ transactions[1].value[1].line_num = 0
  /\ transactions[1].value[2].line_num = 2
  /\ transactions[2].value[1].line_num = 1

\* C5 (as stated): after a zero-sequence line of a registered transaction
\* group whose non-empty identifier differs from the active one, the bucket
\* of that identifier contains only the record of this line.
C5_FreshBucket ==
  [][(ReadsTransactionZero /\ NewKey # current_message_id)
     => /\ Emitted
        /\ Bucket(transactions', NewKey) = <<EmittedRecord>>]_vars

\* C5 (amended): after such a line the per-transaction cache contains only
\* the record of this line, and the bucket of the identifier is the bucket
\* it had before the line (empty if it had none) with this record appended.
C5_FreshCacheBucketExtended ==
  [][(ReadsTransactionZero /\ NewKey # current_message_id)
     => /\ Emitted
        /\ current_transaction_tcr_cache' = <<EmittedRecord>>
        /\ Bucket(transactions', NewKey)
             = Append(BucketOrEmpty(transactions, NewKey), EmittedRecord)]_vars

\* C5 witness: the last line started a transaction whose identifier already
\* had a bucket; the cache holds one record, the bucket more.
C5_Witness ==
  /\ Len(lines) >= 1
  /\ IsTransactionZero(LastLine)
  /\ Len(current_transaction_tcr_cache) = 1
  /\ current_transaction_tcr_cache[1].line_num = Len(lines) - 1
  /\ current_message_id \in Keys(transactions)
  /\ Len(Bucket(transactions, current_message_id)) >= 2

\* C6: a zero-sequence line of a registered group whose code starts with
\* 'CP' and whose non-empty identifier equals the active message id appends
\* its record to the bucket of that id and to the cache, creates no bucket,
\* keeps the active message id and makes its group the active group; and a
\* non-zero line is resolved against the active group.
C6_ContinuedTransaction ==
  [][/\ (/\ ReadsTransactionZero
         /\ startswith(GroupOf(NewLine), <<"C", "P">>)
         /\ NewKey = current_message_id)
        => /\ Emitted
           /\ current_message_id' = current_message_id
           /\ active_transaction_cp_code' = PyStr(GroupOf(NewLine))
           /\ Len(transactions') = Len(transactions)
           /\ current_transaction_tcr_cache'
                = Append(current_transaction_tcr_cache, EmittedRecord)
           /\ Bucket(transactions', NewKey)
                = Append(Bucket(transactions, NewKey), EmittedRecord)
           /\ OtherBucketsUnchanged(NewKey)
     /\ (/\ ReadsLine
         /\ IsNonZeroSeq(NewLine)
         /\ current_transaction_tcr_cache' # current_transaction_tcr_cache)
        => /\ Emitted
           /\ EmittedRecord.application_code = active_transaction_cp_code.v]_vars

\* C6 witness: a CP02 zero-sequence line continued the transaction a CP01
\* line had started, and a sequence-'1' line was then decoded in CP02.
C6_Witness ==
  LET c == current_transaction_tcr_cache
  IN  /\ Len(c) = 3
      /\ Len(transactions) = 1
      /\ c[1].tcr_sequence = <<"0">> /\ c[1].application_code = CP01
      /\ c[2].tcr_sequence = <<"0">> /\ c[2].application_code = CP02
      /\ c[3].tcr_sequence = <<"1">> /\ c[3].schema = "CP02_TCR1"
      /\ active_transaction_cp_code = PyStr(CP02)

\* C7: no bucket holds a record decoded with the header or trailer schema,
\* and after a header or trailer line there is no active transaction.
C7_FileLevelOutsideBuckets ==
  /\ \A i \in 1..Len(transactions) :
       \A k \in 1..Len(transactions[i].value) :
         /\ transactions[i].value[k].schema \notin {"TCR_HEADER", "TCR_TRAILER"}
         /\ transactions[i].value[k].application_code \notin {HEDR, TRLR}
  /\ (Len(lines) >= 1 /\ IsFileLevelLine(LastLine))
       => /\ current_message_id = None
          /\ active_transaction_cp_code = None
          /\ current_transaction_tcr_cache = <<>>

\* C7 witness: a header or trailer line was read right after a line that
\* had started a transaction.
C7_Witness ==
  /\ Len(lines) >= 2
  /\ IsTransactionZero(lines[Len(lines) - 1])
  /\ MsgIdOf(lines[Len(lines) - 1]) # <<>>
  /\ IsFileLevelLine(LastLine)
  /\ transactions # <<>>
  /\ current_message_id = None

\* The file has only blank, header and trailer lines, and a header and a
\* trailer line.
HeaderTrailerFile ==
  /\ \A k \in 1..Len(lines) : IsBlank(lines[k]) \/ IsFileLevelLine(lines[k])
  /\ \E k \in 1..Len(lines) : IsZeroSeq(lines[k]) /\ GroupOf(lines[k]) = HEDR
  /\ \E k \in 1..Len(lines) : IsZeroSeq(lines[k]) /\ GroupOf(lines[k]) = TRLR

\* C8: a file of header and trailer lines only yields a header, a trailer
\* and an empty transactions mapping.
C8_HeaderTrailerOnly ==
  (pc = "done" /\ HeaderTrailerFile) =>
    /\ result.header # None
    /\ result.header.schema = "TCR_HEADER"
    /\ result.trailer # None
    /\ result.trailer.schema = "TCR_TRAILER"
    /\ result.transactions = <<>>

\* C8 witness: a file with a header line and a trailer line was parsed.
C8_Witness ==
  /\ pc = "done"
  /\ HeaderTrailerFile
  /\ result.header # None
  /\ result.trailer # None

\* C9: a line with a non-zero sequence tag read while no transaction is
\* active is discarded, and no transaction is active after it.
C9_NoContextDiscarded ==
  [][(/\ ReadsLine
      /\ IsNonZeroSeq(NewLine)
      /\ (current_message_id = None \/ active_transaction_cp_code = None))
     => /\ Discarded
        /\ current_message_id' = None
        /\ active_transaction_cp_code' = None
        /\ current_transaction_tcr_cache' = <<>>]_vars

\* C9 witness: a non-zero line was read right after a header or trailer
\* line and nothing was stored for it.
C9_Witness ==
  /\ Len(lines) >= 2
  /\ IsFileLevelLine(lines[Len(lines) - 1])
  /\ IsNonZeroSeq(LastLine)
  /\ current_message_id = None
  /\ transactions = <<>>

\* C10: a zero-sequence line whose group has no zero-sequence entry in the
\* primary index changes nothing.
C10_UnregisteredGroupDiscarded ==
  [][(ReadsLine /\ IsZeroSeq(NewLine) /\ ~Registered(GroupOf(NewLine)))
     => Discarded]_vars

\* C10 witness: a zero-sequence line of an unregistered group was read
\* while a transaction was active, and the transaction is still active.
C10_Witness ==
  /\ Len(lines) >= 2
  /\ IsZeroSeq(LastLine)
  /\ ~Registered(GroupOf(LastLine))
  /\ current_message_id # None
  /\ current_transaction_tcr_cache # <<>>
  /\ \A k \in 1..Len(current_transaction_tcr_cache) :
       current_transaction_tcr_cache[k].line_num < Len(lines) - 1

\* A zero-sequence line of a registered transaction group whose message
\* identifier is empty.
IsEmptyIdZero(raw_line) ==
  IsTransactionZero(raw_line) /\ MsgIdOf(raw_line) = <<>>

\* A zero-sequence line of a registered transaction group whose message
\* identifier is not empty.
IsStartingZero(raw_line) ==
  IsTransactionZero(raw_line) /\ MsgIdOf(raw_line) # <<>>

\* Some line read so far had an empty identifier and no line after it could
\* start a transaction.
AfterEmptyIdBeforeStart ==
  \E k \in 1..Len(lines) :
    /\ IsEmptyIdZero(lines[k])
    /\ \A j \in (k + 1)..Len(lines) : ~IsStartingZero(lines[j])

\* C11: a zero-sequence line of a registered transaction group with an empty
\* message identifier leaves no transaction active and stores its record
\* nowhere; and every non-zero line read after such a line, before a
\* zero-sequence line of a registered group with a non-empty identifier, is
\* discarded.
C11_EmptyIdResets ==
  [][/\ (ReadsLine /\ IsEmptyIdZero(NewLine))
        => /\ current_message_id' = None
           /\ active_transaction_cp_code' = None
           /\ current_transaction_tcr_cache' = <<>>
           /\ UNCHANGED <<header, trailer, transactions>>
     /\ (ReadsLine /\ IsNonZeroSeq(NewLine) /\ AfterEmptyIdBeforeStart)
        => Discarded]_vars

\* C11 witness: a transaction was started, a zero-sequence line with an
\* empty identifier followed, then a non-zero line; only the first line's
\* record is stored.
C11_Witness ==
  /\ Len(lines) = 3
  /\ IsStartingZero(lines[1])
  /\ IsEmptyIdZero(lines[2])
  /\ IsNonZeroSeq(lines[3])
  /\ Len(transactions) = 1
  /\ Len(transactions[1].value) = 1
  /\ current_message_id = None

\* The sequence tag (column 4) of a line.
TagOf(raw_line) == <<Col(raw_line, 4)>>

\* A transaction is active: there is an active message id and group.
TransactionActive ==
  current_message_id # None /\ active_transaction_cp_code # None

\* No schema is registered for the pair (group, tag).
NoSchemaFor(app, tag) == <<app, tag>> \notin DOMAIN TCR_LOOKUP_MAP

\* C12: with a transaction active, a non-zero line whose pair (active group,
\* sequence tag) has no schema changes nothing: no record is stored and the
\* active message id, the active group and the cache stay as they are.
C12_UnresolvedDiscarded ==
  [][(/\ ReadsLine
      /\ IsNonZeroSeq(NewLine)
      /\ TransactionActive
      /\ NoSchemaFor(active_transaction_cp_code.v, TagOf(NewLine)))
     => Discarded]_vars

\* C12 witness: in a CP02 transaction a line with a tag CP02 has no schema
\* for was read, and the next line was added to the same transaction.
C12_Witness ==
  /\ Len(lines) = 3
  /\ IsStartingZero(lines[1])
  /\ IsNonZeroSeq(lines[2])
  /\ NoSchemaFor(GroupOf(lines[1]), TagOf(lines[2]))
  /\ IsNonZeroSeq(lines[3])
  /\ Len(current_transaction_tcr_cache) = 2
  /\ current_transaction_tcr_cache[1].line_num = 0
  /\ current_transaction_tcr_cache[2].line_num = 2
  /\ Len(transactions) = 1
  /\ transactions[1].value = current_transaction_tcr_cache

\* The value returned is a parse result made of the final header, trailer
\* and transactions.
ReturnedParseResult ==
  /\ pc = "done"
  /\ result = [header |-> header, trailer |-> trailer, transactions |-> transactions]

\* C13: no exception leaves parse_tc33_file; every step of the loop reads
\* exactly the next line and stays in the loop, or returns; what is returned
\* is a parse result; and the call does return.
C13_AlwaysReturns ==
  /\ [](pc \in {"loop", "done"})
  /\ [][pc = "loop" /\ (\/ pc' = "loop" /\ Len(lines') = Len(lines) + 1
                        \/ pc' = "done" /\ lines' = lines)]_vars
  /\ [](pc = "done" => ReturnedParseResult)
  /\ <>ReturnedParseResult

\* C13 witness: a file of an unregistered zero-sequence line (decoding it
\* fails), a non-zero line out of context and a line that starts a
\* transaction was parsed to the end.
C13_Witness ==
  /\ ReturnedParseResult
  /\ Len(lines) = 3
  /\ IsZeroSeq(lines[1]) /\ ~Registered(GroupOf(lines[1]))
  /\ IsNonZeroSeq(lines[2])
  /\ IsStartingZero(lines[3])
  /\ Len(result.transactions) = 1

\* The records of a list come from lines in increasing file order, and each
\* record carries the text of its line.
InFileOrder(records) ==
  /\ \A k \in 1..Len(records) :
       /\ records[k].line_num + 1 \in 1..Len(lines)
       /\ records[k].raw_line = strip(Padded(lines[records[k].line_num + 1]))
  /\ \A k, l \in 1..Len(records) :
       k < l => records[k].line_num < records[l].line_num

\* The keys of a mapping are in the order of the first record of each
\* bucket.
KeysInFirstRecordOrder(d) ==
  \A i, j \in 1..Len(d) :
    i < j => d[i].value[1].line_num < d[j].value[1].line_num

\* C14: within every bucket the records are in the order of their lines in
\* the file, the keys are in the order of the first line that gave each
\* identifier a record, and the returned mapping keeps both orders.
C14_OrderPreserved ==
  /\ \A i \in 1..Len(transactions) :
       /\ transactions[i].value # <<>>
       /\ InFileOrder(transactions[i].value)
  /\ KeysInFirstRecordOrder(transactions)
  /\ pc = "done" => result.transactions = transactions

\* C14 witness: the lines of two transactions alternate; the first
\* identifier has the records of lines 1 and 3, the second that of line 2,
\* and the result was returned.
C14_Witness ==
  /\ pc = "done"
  /\ Len(result.transactions) = 2
  /\ Len(result.transactions[1].value) = 2
  /\ result.transactions[1].value[1].line_num = 0
  /\ result.transactions[1].value[2].line_num = 2
  /\ result.transactions[2].value[1].line_num = 1

\* The places of the buckets that hold a record of line number n (counted
\* from 0, as line_num is): pairs of bucket and position.
BucketSlotsOf(n) ==
  UNION {{<<i, k>> : k \in {m \in 1..Len(transactions[i].value) :
                                transactions[i].value[m].line_num = n}} :
         i \in 1..Len(transactions)}

\* The places of the result that hold a record of line number n.
SlotsOf(n) ==
  (IF header # None /\ header.line_num = n THEN {<<"header">>} ELSE {})
  \cup (IF trailer # None /\ trailer.line_num = n THEN {<<"trailer">>} ELSE {})
  \cup BucketSlotsOf(n)

\* The number of records the result holds.
StoredRecords ==
  Cardinality(UNION {{<<n, slot>> : slot \in SlotsOf(n)} : n \in 0..(Len(lines) - 1)})

\* The message identifier of the last line up to line number n that could
\* start a transaction: the identifier active when line n is processed, if
\* one is.
StartedIdAt(n) ==
  LET starts == {k \in 1..(n + 1) : IsStartingZero(lines[k])}
  IN  IF starts = {} THEN None
      ELSE PyStr(MsgIdOf(lines[CHOOSE k \in starts : \A m \in starts : m <= k]))

\* C15: every record of the result comes from a line read; a line has at
\* most one record in the whole result and a blank line has none; a record
\* in the header slot comes from a header line, one in the trailer slot from
\* a trailer line, and one in a bucket sits in the bucket of the identifier
\* that was active when its line was processed; and the result holds no
\* more records than the file has non-blank lines.
C15_NoCrossContamination ==
  /\ \A n \in 0..(Len(lines) - 1) :
       /\ Cardinality(SlotsOf(n)) <= 1
       /\ IsBlank(lines[n + 1]) => SlotsOf(n) = {}
       /\ <<"header">> \in SlotsOf(n) => GroupOf(lines[n + 1]) = HEDR
       /\ <<"trailer">> \in SlotsOf(n) => GroupOf(lines[n + 1]) = TRLR
       /\ \A slot \in BucketSlotsOf(n) :
            /\ transactions[slot[1]].key = StartedIdAt(n)
            /\ ~IsFileLevelLine(lines[n + 1])
  /\ header # None => header.line_num \in 0..(Len(lines) - 1)
  /\ trailer # None => trailer.line_num \in 0..(Len(lines) - 1)
  /\ \A i \in 1..Len(transactions) : \A k \in 1..Len(transactions[i].value) :
       transactions[i].value[k].line_num \in 0..(Len(lines) - 1)
  /\ StoredRecords <= Cardinality({k \in 1..Len(lines) : ~IsBlank(lines[k])})

\* C15 witness: a header line and the zero-sequence lines of two
\* transactions were read; the header slot and two buckets hold one record
\* each, of three different lines.
C15_Witness ==
  /\ Len(lines) = 3
  /\ header # None
  /\ Len(transactions) = 2
  /\ StoredRecords = 3
  /\ \A n \in 0..2 : Cardinality(SlotsOf(n)) = 1

\* ------------------------------------------------------------------------
\* Properties of get_field_value
\* ------------------------------------------------------------------------

\* The call of get_field_value has returned or raised.
Returned == pc = "returned"

\* The field of the call has a numeric format.
IsNumericCall == CaseField(field_case).data_format \in {"UN", "N"}

\* The characters of a line in the columns of a field; a column the line
\* does not reach is a space.
FieldColumns(raw_line, field) ==
  [k \in 1..field.length |->
     IF field.start + k - 1 <= Len(raw_line)
     THEN raw_line[field.start + k - 1] ELSE " "]

\* A text without its leading and trailing whitespace.
Trimmed(text) ==
  LET keep == {k \in 1..Len(text) : text[k] \notin Whitespace}
  IN  IF keep = {} THEN <<>>
      ELSE SubSeq(text, CHOOSE k \in keep : \A m \in keep : k <= m,
                        CHOOSE k \in keep : \A m \in keep : m <= k)

\* The trimmed text of the field of the call.
CallText == Trimmed(FieldColumns(field_line, CaseField(field_case)))

DecimalDigits == {"0", "1", "2", "3", "4", "5", "6", "7", "8", "9"}

DigitOf ==
  [c \in DecimalDigits |->
     CASE c = "0" -> 0 [] c = "1" -> 1 [] c = "2" -> 2 [] c = "3" -> 3
       [] c = "4" -> 4 [] c = "5" -> 5 [] c = "6" -> 6 [] c = "7" -> 7
       [] c = "8" -> 8 [] c = "9" -> 9]

\* The number a string of decimal digits denotes, read from the left with
\* the number acc read so far.
RECURSIVE Denoted(_, _)
Denoted(text, acc) ==
  IF text = <<>> THEN acc
  ELSE Denoted(Tail(text), 10 * acc + DigitOf[Head(text)])

\* A non-empty string of decimal digits.
IsDigitString(text) ==
  text # <<>> /\ \A k \in 1..Len(text) : text[k] \in DecimalDigits

HasPoint(text) == \E k \in 1..Len(text) : text[k] = "."

\* The text without a leading sign.
Magnitude(text) ==
  IF text # <<>> /\ text[1] \in {"+", "-"} THEN Tail(text) ELSE text

\* The text without its points.
WithoutPoints(text) == SelectSeq(text, LAMBDA c : c # ".")

\* A number in decimal notation: an optional sign, then digits with at most
\* one point among them, and at least one digit.
IsDecimalNumber(text) ==
  /\ IsDigitString(WithoutPoints(Magnitude(text)))
  /\ Len(Magnitude(text)) - Len(WithoutPoints(Magnitude(text))) <= 1

\* C16: for a field of format UN or N get_field_value returns a number and
\* never raises; a field of spaces gives the integer 0 and a text that is
\* not a decimal number gives the integer 0.
C16_NumericNeverRaises ==
  (Returned /\ IsNumericCall) =>
    /\ field_value.t \in {"int", "real"}
    /\ CallText = <<>> => field_value = PyInt(0)
    /\ ~IsDecimalNumber(CallText) => field_value = PyInt(0)

\* C16 witness: a numeric field with the malformed decimal text '1.5.' was
\* decoded to the integer 0.
C16_Witness ==
  /\ Returned
  /\ IsNumericCall
  /\ CallText = <<"1", ".", "5", ".">>
  /\ field_value = PyInt(0)

\* C17: for a field of format UN or N whose trimmed text is a non-empty
\* string of decimal digits, get_field_value returns the integer the digits
\* denote.
C17_DigitsGiveInteger ==
  (Returned /\ IsNumericCall /\ IsDigitString(CallText)) =>
    field_value = PyInt(Denoted(CallText, 0))

\* C17 witness: the text '0015' with leading zeros was decoded to 15.
C17_Witness ==
  /\ Returned
  /\ IsNumericCall
  /\ CallText = <<"0", "0", "1", "5">>
  /\ field_value = PyInt(15)

\* The digits after the point of a text with one point.
FractionDigits(text) ==
  SubSeq(text, (CHOOSE k \in 1..Len(text) : text[k] = ".") + 1, Len(text))

\* The real value is the number the decimal text denotes: the digits without
\* the point, divided by ten for each digit after the point, with the sign.
IsRealOf(value, text) ==
  /\ value.t = "real"
  /\ value.num * Pow10(Len(FractionDigits(text)))
       = (IF text[1] = "-" THEN -1 ELSE 1)
           * Denoted(WithoutPoints(Magnitude(text)), 0) * Pow10(value.scale)

\* C18: for a field of format UN or N, a trimmed text with a decimal point
\* that is a decimal number is returned as the real number it denotes, and
\* the value is an integer exactly when the text has no decimal point or is
\* not a number.
C18_PointGivesReal ==
  (Returned /\ IsNumericCall) =>
    /\ (HasPoint(CallText) /\ IsDecimalNumber(CallText))
         => IsRealOf(field_value, CallText)
    /\ field_value.t = "int"
         <=> (~HasPoint(CallText) \/ ~IsDecimalNumber(CallText))

\* C18 witness: the text '15.5' was decoded to the real 15.5.
C18_Witness ==
  /\ Returned
  /\ IsNumericCall
  /\ CallText = <<"1", "5", ".", "5">>
  /\ field_value = PyFloat(155, 1)

\* C19: for a field of a format other than UN and N, get_field_value returns
\* the characters of the field without leading and trailing whitespace, as
\* text; what is between is unchanged, also for the format DX.
C19_TextTrimmed ==
  (Returned /\ ~IsNumericCall) => field_value = PyStr(CallText)

\* C19 witness: a DX field holding ' 1 A' was returned as the text '1 A'.
C19_Witness ==
  /\ Returned
  /\ CaseField(field_case).data_format = "DX"
  /\ FieldColumns(field_line, CaseField(field_case))[1] = " "
  /\ CallText = <<"1", " ", "A">>
  /\ field_value = PyStr(<<"1", " ", "A">>)

\* ------------------------------------------------------------------------
\* Trailing spaces
\* ------------------------------------------------------------------------

\* A line without its trailing spaces.
WithoutTrailingSpaces(raw_line) ==
  LET keep == {k \in 1..Len(raw_line) : raw_line[k] # " "}
  IN  IF keep = {} THEN <<>>
      ELSE SubSeq(raw_line, 1, CHOOSE k \in keep : \A m \in keep : m <= k)

\* A line with trailing spaces up to column n.
WithSpacesTo(raw_line, n) ==
  IF Len(raw_line) >= n THEN raw_line
  ELSE [k \in 1..n |-> IF k <= Len(raw_line) THEN raw_line[k] ELSE " "]

\* The same line with fewer or more trailing spaces: none, one more, and
\* up to a column beyond the end of every declared field.
SpacingVariants(raw_line) ==
  { WithoutTrailingSpaces(raw_line),
    Append(raw_line, " "),
    WithSpacesTo(raw_line, RecordWidth + 12) }

\* What the loop has assigned, as a tuple.
Assigned(s) ==
  <<s.header, s.trailer, s.transactions, s.ctx.mid, s.ctx.cache, s.ctx.cp, s.raised>>

\* The locals after the loop body has run on v in place of the line read.
ParsedInstead(v) ==
  Body(v, Len(lines),
       Locals(header, trailer, transactions,
              Context(current_message_id, current_transaction_tcr_cache,
                      active_transaction_cp_code)))

\* The records of the result that come from line number n.
RecordsOf(n) ==
  (IF header # None /\ header.line_num = n THEN {header} ELSE {})
  \cup (IF trailer # None /\ trailer.line_num = n THEN {trailer} ELSE {})
  \cup {transactions[slot[1]].value[slot[2]] : slot \in BucketSlotsOf(n)}

\* The schema object with the given identity.
SchemaNamed(id) ==
  TCR_DEFINITIONS[CHOOSE k \in 1..Len(TCR_DEFINITIONS) : TCR_DEFINITIONS[k].def.id = id].def

\* Every field of the schema decodes from the short line without failing
\* and to the value in the record, which was decoded from the padded line.
ShortLineDecodesAs(tcr_def, short, record) ==
  \A n \in FieldNames(tcr_def) :
    /\ record.parsed_fields[n].t # "raise"
    /\ get_field_value(tcr_def, short, n) = record.parsed_fields[n]

\* C20: every declared field of the schema of a line decodes from the line
\* without its trailing spaces, however short, without failing and to the
\* same value as from the padded line; reading a line with fewer or more
\* trailing spaces assigns the same records and the same context; and the
\* result returned is made of what the lines assigned, so it does not depend
\* on the trailing spaces of any line.
C20_TrailingSpacesIrrelevant ==
  [][/\ ReadsLine =>
          /\ \A record \in RecordsOf(Len(lines) - 1)' :
               ShortLineDecodesAs(SchemaNamed(record.schema),
                                  WithoutTrailingSpaces(NewLine), record)
          /\ \A v \in SpacingVariants(NewLine) :
               Assigned(ParsedInstead(v))
                 = <<header', trailer', transactions', current_message_id',
                     current_transaction_tcr_cache',
                     active_transaction_cp_code', None>>
     /\ (pc = "loop" /\ pc' = "done") =>
          result' = [header |-> header, trailer |-> trailer,
                     transactions |-> transactions]]_vars

\* C20 witness: a CP02 zero-sequence line much shorter than the record
\* width, whose schema has a field that ends beyond the record width, was
\* decoded and the result returned.
C20_Witness ==
  /\ pc = "done"
  /\ Len(lines) >= 1
  /\ Len(LastLine) < 40
  /\ \E record \in RecordsOf(Len(lines) - 1) :
       /\ record.schema = "CP02_TCR0"
       /\ \E n \in FieldNames(CP02_TCR0) :
            FieldOf(CP02_TCR0, n).python_end > RecordWidth

\* ------------------------------------------------------------------------
\* Properties of the registry
\* ------------------------------------------------------------------------

\* The schema objects of the registry: the values of TCR_DEFINITIONS, under
\* tuple keys and under names.
RegistrySchemas == {TCR_DEFINITIONS[k].def : k \in 1..Len(TCR_DEFINITIONS)}

\* The field descriptors of a schema.
FieldsOf(tcr_def) == {tcr_def.fields[k] : k \in 1..Len(tcr_def.fields)}

\* The modules are imported, the registry is built: parse_tc33_file is
\* running or has returned.
RegistryBuilt == pc \in {"loop", "done"}

\* C21: every field descriptor of every schema of the registry has a
\* positive length and the zero-based half-open range
\* [start - 1, start - 1 + length), which ends within the record width, in
\* every state of a parse.
C21_FieldsWithinRecord ==
  RegistryBuilt =>
    \A tcr_def \in RegistrySchemas :
      \A field \in FieldsOf(tcr_def) :
        /\ field.length > 0
        /\ field.python_start = field.start - 1
        /\ field.python_end = field.start - 1 + field.length
        /\ field.python_end <= RecordWidth

\* The field of that name of a schema that declares it.
DeclaredField(tcr_def, name) ==
  CHOOSE field \in FieldsOf(tcr_def) : field.name = name

Declares(tcr_def, name) == \E field \in FieldsOf(tcr_def) : field.name = name

\* A schema of the registry that declares 'Message Identifier' declares it
\* at start 21 with length 15, the offsets 20 to 35 of the line; and every
\* schema of sequence '0' other than the header and the trailer declares it.
MessageIdentifierAtColumns ==
  \A tcr_def \in RegistrySchemas :
    /\ Declares(tcr_def, "Message Identifier") =>
         /\ DeclaredField(tcr_def, "Message Identifier").start = 21
         /\ DeclaredField(tcr_def, "Message Identifier").length = 15
         /\ DeclaredField(tcr_def, "Message Identifier").python_start = 20
         /\ DeclaredField(tcr_def, "Message Identifier").python_end = 35
    /\ (tcr_def.tcr_sequence = <<"0">> /\ tcr_def.application_code \notin {HEDR, TRLR})
         => Declares(tcr_def, "Message Identifier")

\* C22: in every state of a parse, a schema of the registry that declares
\* 'Message Identifier' declares it at start 21 with length 15, the
\* offsets 20 to 35 of the line; and every schema of sequence '0' other than
\* the header and the trailer declares it.
C22_MessageIdentifierColumns == RegistryBuilt => MessageIdentifierAtColumns

\* C22 witness: a CP02 zero-sequence line was decoded and the message
\* identifier of its record is the text of columns 21-35 of the line.
C22_Witness ==
  /\ Len(lines) >= 1
  /\ GroupOf(LastLine) = CP02
  /\ MsgIdOf(LastLine) # <<>>
  /\ \E record \in RecordsOf(Len(lines) - 1) :
       /\ record.schema = "CP02_TCR0"
       /\ record.parsed_fields["Message Identifier"] = PyStr(MsgIdOf(LastLine))

\* The identities of the country variants of TCR-9.
VariantSchemas == {CP01_TCR9_COL.id, CP01_TCR9_JPN.id, CP01_TCR9_MEX.id}

\* The records in the buckets of the result.
BucketRecords ==
  UNION {{transactions[i].value[k] : k \in 1..Len(transactions[i].value)} :
         i \in 1..Len(transactions)}

\* C23: in every state of a parse no key of TCR_LOOKUP_MAP maps to the
\* Colombia, Japan or Mexico variant of TCR-9, and a record decoded by a
\* variant can only come from a sequence-'9' line whose pair (CP01, '9') the
\* primary index does not resolve.
C23_NoVariantInPrimaryIndex ==
  RegistryBuilt =>
    /\ \A key \in DOMAIN TCR_LOOKUP_MAP :
         TCR_LOOKUP_MAP[key].id \notin VariantSchemas
    /\ \A record \in BucketRecords :
         record.schema \in VariantSchemas
           => /\ record.tcr_sequence = <<"9">>
              /\ NoSchemaFor(CP01, <<"9">>)

\* C23 witness: in a CP01 transaction with a TCR-3 record for Mexico a
\* sequence-'9' line was resolved through the primary index, to the generic
\* schema.
C23_Witness ==
  /\ Len(current_transaction_tcr_cache) = 3
  /\ current_transaction_tcr_cache[2].schema = "CP01_TCR3"
  /\ ShipTo(current_transaction_tcr_cache[2]) = MEX
  /\ current_transaction_tcr_cache[3].tcr_sequence = <<"9">>
  /\ current_transaction_tcr_cache[3].schema = TCR_LOOKUP_MAP[<<CP01, <<"9">>>>].id
  /\ current_transaction_tcr_cache[3].schema \notin VariantSchemas

\* The positions in the file of the zero-sequence lines of a group.
ZeroLinesOf(app) ==
  {k \in 1..Len(lines) : IsZeroSeq(lines[k]) /\ GroupOf(lines[k]) = app}

\* The slot holds the record of the last zero-sequence line of the group,
\* or nothing when the file has no such line.
HoldsLastOf(slot, app) ==
  IF ZeroLinesOf(app) = {} THEN slot = None
  ELSE /\ slot # None
       /\ slot.application_code = app
       /\ \A k \in ZeroLinesOf(app) : k <= slot.line_num + 1
       /\ slot.line_num + 1 \in ZeroLinesOf(app)
       /\ slot.raw_line = strip(Padded(lines[slot.line_num + 1]))

\* C24: the header slot holds the record of the last HEDR line read and the
\* trailer slot that of the last TRLR line read, and they are the header and
\* the trailer returned.
C24_LastWriteWins ==
  /\ pc \in {"loop", "done"} =>
       /\ HoldsLastOf(header, HEDR)
       /\ HoldsLastOf(trailer, TRLR)
  /\ pc = "done" =>
       /\ result.header = header
       /\ result.trailer = trailer

\* C24 witness: a file with two header lines, the first and the third, was
\* parsed and the header returned is the record of the third line.
C24_Witness ==
  /\ pc = "done"
  /\ ZeroLinesOf(HEDR) = {1, 3}
  /\ result.header # None
  /\ result.header.line_num = 2

\* C25 as stated: whenever a transaction is active the cache equals the
\* bucket of the active message id.
C25_CacheEqualsBucket ==
  TransactionActive =>
    /\ current_message_id \in Keys(transactions)
    /\ current_transaction_tcr_cache = Bucket(transactions, current_message_id)

\* The records of a list that come from line number n or a later line.
RecordsSince(records, n) == SelectSeq(records, LAMBDA r : r.line_num >= n)

\* C25 amended: whenever a transaction is active the cache is not empty, its
\* first record is that of the zero-sequence line that started the
\* transaction with the active message id, and the cache is the end of the
\* bucket of that id from that record on; every record stored since that
\* line is in the cache.
C25_CacheIsBucketSinceStart ==
  TransactionActive =>
    /\ current_message_id \in Keys(transactions)
    /\ current_transaction_tcr_cache # <<>>
    /\ IsStartingZero(lines[current_transaction_tcr_cache[1].line_num + 1])
    /\ current_message_id
         = PyStr(MsgIdOf(lines[current_transaction_tcr_cache[1].line_num + 1]))
    /\ current_transaction_tcr_cache
         = RecordsSince(Bucket(transactions, current_message_id),
                        current_transaction_tcr_cache[1].line_num)
    /\ \A n \in current_transaction_tcr_cache[1].line_num..(Len(lines) - 1) :
         \A record \in RecordsOf(n) :
           \E k \in 1..Len(current_transaction_tcr_cache) :
             current_transaction_tcr_cache[k] = record

\* C25 witness: the identifier of the first line reappears on the third
\* after another transaction; the cache has the third line's record only
\* and the bucket has two records.
C25_Witness ==
  /\ TransactionActive
  /\ Len(lines) = 3
  /\ Len(current_transaction_tcr_cache) = 1
  /\ current_transaction_tcr_cache[1].line_num = 2
  /\ Len(Bucket(transactions, current_message_id)) = 2

\* C26: every step keeps every key of the mapping, and leaves the bucket of
\* a key as it is or with exactly one record more at its end; the records
\* that were in a bucket stay as they are; a new bucket holds exactly one
\* record; and the mapping returned is the mapping built.
C26_BucketsOnlyGrow ==
  [][/\ \A key \in Keys(transactions) :
          /\ key \in Keys(transactions')
          /\ \/ Bucket(transactions', key) = Bucket(transactions, key)
             \/ /\ Len(Bucket(transactions', key)) = Len(Bucket(transactions, key)) + 1
                /\ SubSeq(Bucket(transactions', key), 1, Len(Bucket(transactions, key)))
                     = Bucket(transactions, key)
     /\ \A key \in Keys(transactions') \ Keys(transactions) :
          Len(Bucket(transactions', key)) = 1
     /\ pc' = "done" => result'.transactions = transactions]_vars

\* C26 witness: the second of two buckets was extended by a second record
\* while the first bucket kept its one record.
C26_Witness ==
  /\ pc = "loop"
  /\ Len(transactions) = 2
  /\ Len(transactions[1].value) = 1
  /\ Len(transactions[2].value) = 2
  /\ transactions[1].value[1].line_num = 0
  /\ transactions[2].value[2].line_num = 2

\* ------------------------------------------------------------------------
\* Two calls at once
\* ------------------------------------------------------------------------

\* The locals of a call that reads the first n lines of file with no other
\* call under way.
RECURSIVE RunAlone(_, _)
RunAlone(file, n) ==
  IF n = 0 THEN Locals(None, None, <<>>, ResetContext)
  ELSE Body(file[n], n - 1, RunAlone(file, n - 1))

\* The dictionary a call returns from the locals s.
ResultOf(s) ==
  [header |-> s.header, trailer |-> s.trailer, transactions |-> s.transactions]

\* The locals of frame are those of the same file read alone, and so is
\* what it has returned.
AsAlone(frame, alone) ==
  /\ frame.locals = alone
  /\ frame.pc = "done" => frame.result = ResultOf(alone)
  /\ frame.pc # "done" => frame.result = None

\* C27: whatever the order of the iterations of two calls, the locals of
\* each call after every line, and the dictionary it returns, are those of
\* the same file parsed alone; and the module-level registry objects stay
\* the objects built at import.
C27_CallsIndependent ==
  pc = "calls" =>
    /\ \A i \in 1..2 : AsAlone(calls[i], RunAlone(calls[i].lines, Len(calls[i].lines)))
    /\ registry = ModuleObjects

\* C27 witness: both calls have returned, each ran an iteration while the
\* other was between two of its own, and they hold transactions under
\* different identifiers.
C27_Witness ==
  /\ pc = "calls"
  /\ \A i \in 1..2 : calls[i].pc = "done" /\ calls[i].overlapped
  /\ Keys(calls[1].result.transactions) = {PyStr(M1)}
  /\ Keys(calls[2].result.transactions) = {PyStr(M2)}
  /\ Len(Bucket(calls[1].result.transactions, PyStr(M1))) = 2
  /\ Len(Bucket(calls[2].result.transactions, PyStr(M2))) = 2

\* ------------------------------------------------------------------------
\* The export
\* ------------------------------------------------------------------------

\* generate_excel_file has written the sheets.
Exported == pc = "exported" /\ workbook.output # None

\* The positions in tcr_list of the records of CP01 lines with sequence 1
\* that carry a Card ID.
CardRecords(tcr_list) ==
  {k \in 1..Len(tcr_list) :
     /\ tcr_list[k].application_code = CP01
     /\ tcr_list[k].tcr_sequence = <<"1">>
     /\ "Card ID" \in DOMAIN tcr_list[k].parsed_fields
     /\ Truthy(tcr_list[k].parsed_fields["Card ID"])}

\* The Card ID parse_tc33_file decoded for a transaction: that of its last
\* record that carries one, None when no record does.
DecodedCardId(tcr_list) ==
  IF CardRecords(tcr_list) = {} THEN None
  ELSE tcr_list[CHOOSE k \in CardRecords(tcr_list) :
                  \A j \in CardRecords(tcr_list) : j <= k].parsed_fields["Card ID"]

\* The sheet of each recognised Card ID.
CardSheets ==
  (<<"V", "I">> :> "VISA Transactions") @@ (<<"M", "C">> :> "Mastercard Transactions")
  @@ (<<"J", "C">> :> "JCB Transactions") @@ (<<"D", "C">> :> "Diners Club Transactions")
  @@ (<<"A", "X">> :> "AX Transactions") @@ (<<"D", "I">> :> "Discover Transactions")

\* The rows of the sheet name that belong to transaction msg_id.
RowsIn(name, msg_id) ==
  {k \in 1..Len(workbook.output[name]) :
     /\ <<"Message Identifier">> \in DOMAIN workbook.output[name][k]
     /\ workbook.output[name][k][<<"Message Identifier">>] = msg_id}

\* C28: once the sheets are written, a transaction whose decoded Card ID is
\* VI, MC, JC, DC, AX or DI has its row in the sheet of that card, and a
\* transaction has a row in the sheet of the others only if it has no Card
\* ID or one that is none of the six.
C28_ClassifiedByCardId ==
  Exported =>
    \A t \in 1..Len(result.transactions) :
      /\ \A card \in DOMAIN CardSheets :
           DecodedCardId(result.transactions[t].value) = PyStr(card)
             => RowsIn(CardSheets[card], result.transactions[t].key) # {}
      /\ RowsIn("Other Transactions", result.transactions[t].key) # {}
           => \/ DecodedCardId(result.transactions[t].value) = None
              \/ upper(DecodedCardId(result.transactions[t].value).v)
                   \notin DOMAIN CardSheets

\* The row of transaction msg_id, which is in exactly one sheet.
RowOf(msg_id) ==
  LET name == CHOOSE n \in DOMAIN NoRowsMessage : RowsIn(n, msg_id) # {}
  IN  workbook.output[name][CHOOSE k \in RowsIn(name, msg_id) : TRUE]

\* The last record of tcr_list that the schema of record j decoded.
LastOfSchema(tcr_list, j) ==
  CHOOSE k \in j..Len(tcr_list) :
    /\ tcr_list[k].schema = tcr_list[j].schema
    /\ \A i \in (k + 1)..Len(tcr_list) : tcr_list[i].schema # tcr_list[j].schema

\* The row holds, under the key of each field of record j, the value that
\* the last record of the same schema decoded for it.
KeptInRow(row, tcr_list, j) ==
  \A k \in DOMAIN tcr_list[j].parsed_fields :
    /\ PrefixedKey(Prefix(tcr_list[j]), k) \in DOMAIN row
    /\ row[PrefixedKey(Prefix(tcr_list[j]), k)]
         = tcr_list[LastOfSchema(tcr_list, j)].parsed_fields[k]

\* C29: once the sheets are written, records of one transaction that
\* different schemas decoded have different prefixes, and the row of the
\* transaction holds every decoded value of every record, but for a value
\* that a later record of the same schema replaced.
C29_NoCollisionAcrossSchemas ==
  Exported =>
    \A t \in 1..Len(result.transactions) :
      \A j \in 1..Len(result.transactions[t].value) :
        /\ \A i \in 1..Len(result.transactions[t].value) :
             result.transactions[t].value[i].schema # result.transactions[t].value[j].schema
               => Prefix(result.transactions[t].value[i])
                    # Prefix(result.transactions[t].value[j])
        /\ KeptInRow(RowOf(result.transactions[t].key), result.transactions[t].value, j)

\* ------------------------------------------------------------------------
\* Blank lines
\* ------------------------------------------------------------------------

\* The file has an empty line or a line of whitespace only.
HasBlank(file) == \E k \in 1..Len(file) : IsBlank(file[k])

\* The locals after the first n lines of file with its blank lines taken
\* out; the records keep the history line numbers they have in file.
RECURSIVE RunWithoutBlank(_, _)
RunWithoutBlank(file, n) ==
  IF n = 0 THEN Locals(None, None, <<>>, ResetContext)
  ELSE IF IsBlank(file[n]) THEN RunWithoutBlank(file, n - 1)
  ELSE Body(file[n], n - 1, RunWithoutBlank(file, n - 1))

\* The assembler state and what has been returned are those the locals s
\* give.
StateIs(s) ==
  /\ <<header, trailer, transactions, current_message_id,
       current_transaction_tcr_cache, active_transaction_cp_code, None>> = Assigned(s)
  /\ pc # "raised"
  /\ pc = "done" => result = ResultOf(s)

\* The assembler state is that of the lines read with the blank ones taken
\* out.
AsWithoutBlank == StateIs(RunWithoutBlank(lines, Len(lines)))

\* C30: after every step, and at the return, on a file with empty or
\* whitespace-only lines, the assembler state and the dictionary returned
\* are those of the same file with its blank lines taken out.
C30_BlankLinesNoEffect == HasBlank(lines) => AsWithoutBlank

\* C30 witness: an empty line stood between the line that started a
\* transaction and its sequence-1 line, a whitespace-only line before them,
\* and the returned bucket holds both records.
C30_Witness ==
  /\ pc = "done"
  /\ Len(lines) = 3
  /\ IsBlank(lines[2])
  /\ IsTransactionZero(lines[1])
  /\ IsNonZeroSeq(lines[3])
  /\ Len(result.transactions) = 1
  /\ Len(result.transactions[1].value) = 2

\* ------------------------------------------------------------------------
\* Columns beyond the record width
\* ------------------------------------------------------------------------

\* The line filled with spaces up to the record width and followed by text
\* in the columns after it.
BeyondWidth(raw_line) == WithSpacesTo(raw_line, RecordWidth) \o <<"X", "Y", "Z">>

\* The decoded fields of a record, None for no record.
FieldsIn(record) == IF record = None THEN None ELSE record.parsed_fields

\* The decoded fields of every record of the locals s, with the keys of the
\* buckets.
DecodedFields(h, t, tx) ==
  <<FieldsIn(h), FieldsIn(t),
    [k \in 1..Len(tx) |->
       [key |-> tx[k].key,
        value |-> [j \in 1..Len(tx[k].value) |-> tx[k].value[j].parsed_fields]]]>>

\* The decoded fields after the loop body has run on v in place of the line
\* read.
DecodedInstead(s) == DecodedFields(s.header, s.trailer, s.transactions)

\* C31: reading a line gives the same decoded fields in every record as
\* reading the line with text added after column 168.
C31_NothingBeyondRecordWidth ==
  [][ReadsLine =>
       DecodedInstead(ParsedInstead(BeyondWidth(NewLine)))
         = DecodedFields(header', trailer', transactions')]_vars

\* ------------------------------------------------------------------------
\* Field decoding reads its columns only
\* ------------------------------------------------------------------------

\* A line that has the characters of raw_line in the columns of the field
\* and the character c in every other column, up to two columns after the
\* field.
Elsewhere(raw_line, field, c) ==
  [k \in 1..(field.python_end + 2) |->
     IF k >= field.start /\ k <= field.python_end
     THEN FieldColumns(raw_line, field)[k - field.python_start]
     ELSE c]

\* The line of the call has a character that is not a space outside the
\* columns of the field.
TextOutsideField ==
  \E k \in 1..Len(field_line) :
    /\ field_line[k] # " "
    /\ (k < CaseField(field_case).start \/ k > CaseField(field_case).python_end)

\* C32: the call of get_field_value on a declared field returns a value,
\* never an exception; the value is the one decoded from any line that has
\* the same characters in the columns [start-1, start-1+length) of the
\* field, whatever the other columns hold; and the call leaves the line, the
\* schema and every other variable as they were.
C32_DecodingPureAndTotal ==
  [][pc' = "returned" =>
       /\ field_value'.t # "raise"
       /\ \A c \in {" ", "9", ".", "A"} :
            field_value' = get_field_value(CaseDef(field_case),
                                           Elsewhere(field_line, CaseField(field_case), c),
                                           FieldCases[field_case][2])
       /\ UNCHANGED <<lines, header, trailer, transactions, current_message_id,
                      current_transaction_tcr_cache, active_transaction_cp_code,
                      result, field_case, field_line, calls, registry, workbook,
                      line_parsed_data>>]_vars

\* C32 witness: a three-column numeric field was decoded to 15 from a line
\* that holds '015' in its columns and a digit in the column after them.
C32_Witness ==
  /\ Returned
  /\ IsNumericCall
  /\ TextOutsideField
  /\ FieldColumns(field_line, CaseField(field_case)) = <<"0", "1", "5">>
  /\ field_line[CaseField(field_case).python_end + 1] = "1"
  /\ field_value = PyInt(15)

\* ------------------------------------------------------------------------
\* The states of the assembler
\* ------------------------------------------------------------------------

\* The line read can start a transaction and its identifier is not the
\* active one.
ReadsNewIdentifier ==
  /\ ReadsLine
  /\ IsStartingZero(NewLine)
  /\ (current_message_id = None \/ current_message_id # PyStr(MsgIdOf(NewLine)))

\* C33: after a zero-sequence line of a registered transaction group whose
\* non-empty identifier is not the active one, the active message id is the
\* identifier in columns 21-35 of the line, the active group is the group in
\* its columns 17-20, and the cache holds one record, which is the record of
\* this line and carries that identifier.
C33_StartOfTransaction ==
  [][ReadsNewIdentifier =>
       /\ current_message_id' = PyStr(MsgIdOf(NewLine))
       /\ active_transaction_cp_code' = PyStr(GroupOf(NewLine))
       /\ Len(current_transaction_tcr_cache') = 1
       /\ current_transaction_tcr_cache'[1].line_num = Len(lines)
       /\ current_transaction_tcr_cache'[1].application_code = GroupOf(NewLine)
       /\ current_transaction_tcr_cache'[1].parsed_fields["Message Identifier"]
            = current_message_id']_vars

\* C33 witness: a CP02 line with identifier M1 followed two lines of the
\* CP01 transaction M2; M1 and CP02 are active and the cache holds the
\* record of the third line only.
C33_Witness ==
  /\ pc = "loop"
  /\ lines = <<ZeroLine(CP01, M2), SeqLine("1", <<>>), ZeroLine(CP02, M1)>>
  /\ current_message_id = PyStr(M1)
  /\ active_transaction_cp_code = PyStr(CP02)
  /\ Len(current_transaction_tcr_cache) = 1
  /\ current_transaction_tcr_cache[1].line_num = 2
  /\ Len(Bucket(transactions, PyStr(M2))) = 2

\* No transaction is active and the cache is empty.
Idle ==
  /\ current_message_id = None
  /\ active_transaction_cp_code = None
  /\ current_transaction_tcr_cache = <<>>

\* The group has a zero-sequence schema in the primary index that declares a
\* message identifier.
TransactionGroup(app) ==
  /\ Registered(app)
  /\ HasField(TCR_LOOKUP_MAP[<<app, <<"0">>>>], "Message Identifier")

\* A transaction is active: the message id is a non-empty string and the
\* active group is the group of a registered zero-sequence transaction
\* schema.
ActiveTransaction ==
  /\ current_message_id.t = "str"
  /\ current_message_id.v # <<>>
  /\ active_transaction_cp_code.t = "str"
  /\ TransactionGroup(active_transaction_cp_code.v)

\* C34: while the lines are read and when the call has returned, the
\* assembler is either idle (no message id, no group, empty cache) or in an
\* active transaction (non-empty message id, group of a registered
\* zero-sequence transaction schema), never both and never anything else.
C34_IdleOrActive ==
  pc \in {"loop", "done"} =>
    /\ Idle \/ ActiveTransaction
    /\ ~(Idle /\ ActiveTransaction)

\* C34 witness: a transaction of two records was active and a zero-sequence
\* line with an empty identifier made the assembler idle again.
C34_Witness ==
  /\ pc = "loop"
  /\ Len(lines) = 3
  /\ IsEmptyIdZero(lines[3])
  /\ Idle
  /\ Len(transactions) = 1
  /\ Len(transactions[1].value) = 2

\* ------------------------------------------------------------------------
\* The records of a bucket
\* ------------------------------------------------------------------------

\* The record comes from a line whose sequence tag is '0'.
IsZeroRecord(record) == record.tcr_sequence = <<"0">>

\* C35: the first record of every bucket comes from a zero-sequence line,
\* and every record of a bucket that comes from a zero-sequence line has the
\* key of the bucket as its decoded 'Message Identifier'.
C35_BucketsStartWithTheirZeroRecord ==
  pc \in {"loop", "done"} =>
    \A k \in 1..Len(transactions) :
      /\ IsZeroRecord(transactions[k].value[1])
      /\ \A j \in 1..Len(transactions[k].value) :
           IsZeroRecord(transactions[k].value[j]) =>
             /\ "Message Identifier" \in DOMAIN transactions[k].value[j].parsed_fields
             /\ transactions[k].value[j].parsed_fields["Message Identifier"]
                  = transactions[k].key

\* C35 witness: the bucket of M1 holds the records of two zero-sequence
\* lines, of the groups CP01 and CP02, and of a sequence-1 line after them.
C35_Witness ==
  /\ pc = "loop"
  /\ lines = <<ZeroLine(CP01, M1), ZeroLine(CP02, M1), SeqLine("1", <<>>)>>
  /\ Len(transactions) = 1
  /\ transactions[1].key = PyStr(M1)
  /\ Len(transactions[1].value) = 3
  /\ IsZeroRecord(transactions[1].value[2])
  /\ ~IsZeroRecord(transactions[1].value[3])

\* Every record of every bucket was decoded by a schema whose application
\* group and sequence tag are those the record carries.
BucketSchemasMatch ==
  \A k \in 1..Len(transactions) :
    \A j \in 1..Len(transactions[k].value) :
      /\ SchemaNamed(transactions[k].value[j].schema).application_code
           = transactions[k].value[j].application_code
      /\ SchemaNamed(transactions[k].value[j].schema).tcr_sequence
           = transactions[k].value[j].tcr_sequence

\* Every schema of the primary index has the application group and the
\* sequence tag of its key.
IndexKeysMatch ==
  \A key \in DOMAIN TCR_LOOKUP_MAP :
    /\ TCR_LOOKUP_MAP[key].application_code = key[1]
    /\ TCR_LOOKUP_MAP[key].tcr_sequence = key[2]

\* The step reads a non-zero line for whose sequence tag the active group
\* has a schema.
ReadsResolvedNonZero ==
  /\ ReadsLine
  /\ IsNonZeroSeq(NewLine)
  /\ TransactionActive
  /\ ~NoSchemaFor(active_transaction_cp_code.v, TagOf(NewLine))

\* C36: a non-zero line is decoded by the schema registered for the active
\* group and the sequence tag of the line, whatever its own columns 17-20
\* hold, and the active group stays; after every step every record of
\* every bucket carries the application group and the sequence tag of the
\* schema that decoded it; and every schema of the primary index has the
\* group and the tag of its key.
C36_ResolvedFromActiveGroup ==
  [][/\ ReadsResolvedNonZero =>
          /\ Emitted
          /\ EmittedRecord.schema
               = TCR_LOOKUP_MAP[<<active_transaction_cp_code.v, TagOf(NewLine)>>].id
          /\ EmittedRecord.application_code = active_transaction_cp_code.v
          /\ active_transaction_cp_code' = active_transaction_cp_code
     /\ BucketSchemasMatch'
     /\ IndexKeysMatch]_vars

\* C36 witness: with CP02 active, a sequence-1 line that carries CP01 in
\* its columns 17-20 was decoded by the CP02 schema of sequence 1.
C36_Witness ==
  /\ pc = "loop"
  /\ lines = <<ZeroLine(CP02, M1), SeqLineWithGroup("1", CP01, M2)>>
  /\ active_transaction_cp_code = PyStr(CP02)
  /\ Len(current_transaction_tcr_cache) = 2
  /\ current_transaction_tcr_cache[2].schema = CP02_TCR1.id
  /\ current_transaction_tcr_cache[2].application_code = CP02

\* ------------------------------------------------------------------------
\* Record type and qualifier
\* ------------------------------------------------------------------------

\* The line with the three characters head in its columns 1-3.
WithHead(raw_line, head) ==
  head \o SubSeq(WithSpacesTo(raw_line, 4), 4, Len(WithSpacesTo(raw_line, 4)))

\* Other record types and qualifiers: digits, letters, and none at all.
Heads == {<<"9", "9", "1">>, <<"A", "B", "C">>, <<" ", " ", " ">>}

\* The fields that every schema declares in columns 1-2 and 3; every other
\* field of every schema starts after column 3.
LeadingFields == {"Transaction Code", "Transaction Code Qualifier"}

\* A record without its record type, its qualifier, the text of its line
\* and the values of the fields decoded from columns 1-3.
Masked(record) ==
  IF record = None THEN None
  ELSE [record EXCEPT !.tcr_type_code = <<>>, !.tcr_qualifier = <<>>,
                      !.raw_line = <<>>,
                      !.parsed_fields["Transaction Code"] = None,
                      !.parsed_fields["Transaction Code Qualifier"] = None]

\* The list of records, masked.
MaskedList(records) == [j \in 1..Len(records) |-> Masked(records[j])]

\* The header, the trailer, the buckets with their keys, the active message
\* id, the cache and the active group, with every record masked.
MaskedState(h, t, tx, mid, cache, cp) ==
  <<Masked(h), Masked(t),
    [k \in 1..Len(tx) |-> [key |-> tx[k].key, value |-> MaskedList(tx[k].value)]],
    mid, MaskedList(cache), cp>>

\* The masked state of the locals s, and the exception that left the body.
MaskedLocals(s) ==
  <<MaskedState(s.header, s.trailer, s.transactions, s.ctx.mid, s.ctx.cache, s.ctx.cp),
    s.raised>>

\* C37: reading a non-blank line with any other characters in its columns
\* 1-3 raises nothing and gives the same header, trailer, bucket keys,
\* buckets, active message id, cache and active group, with records of the
\* same schemas and the same values in every field decoded from the columns
\* after the third; only the record type, the qualifier, the text of the
\* line and the fields decoded from columns 1-3 may differ.
C37_TypeAndQualifierNotValidated ==
  [][(ReadsLine /\ ~IsBlank(NewLine)) =>
       {MaskedLocals(ParsedInstead(WithHead(NewLine, head))) : head \in Heads}
         = {<<MaskedState(header', trailer', transactions', current_message_id',
                          current_transaction_tcr_cache',
                          active_transaction_cp_code'), None>>}]_vars

\* The locals after the line is read alone with head in its columns 1-3.
AloneWithHead(raw_line, head) ==
  Body(WithHead(raw_line, head), 0, Locals(None, None, <<>>, ResetContext))

\* C37 witness: the line that started the transaction M1 was stored with
\* record type 33 and qualifier 0, and the same line with 'AB' and 'C' in
\* columns 1-3 starts the same transaction with a record of type 'AB',
\* qualifier 'C' and transaction code 0.
C37_Witness ==
  /\ pc = "loop"
  /\ lines = <<ZeroLine(CP01, M1)>>
  /\ Keys(transactions) = {PyStr(M1)}
  /\ transactions[1].value[1].tcr_type_code = <<"3", "3">>
  /\ transactions[1].value[1].parsed_fields["Transaction Code"] = PyInt(33)
  /\ Keys(AloneWithHead(lines[1], <<"A", "B", "C">>).transactions) = {PyStr(M1)}
  /\ AloneWithHead(lines[1], <<"A", "B", "C">>).transactions[1].value[1].tcr_type_code
       = <<"A", "B">>
  /\ AloneWithHead(lines[1], <<"A", "B", "C">>).transactions[1].value[1].tcr_qualifier
       = <<"C">>
  /\ AloneWithHead(lines[1], <<"A", "B", "C">>).transactions[1].value[1]
       .parsed_fields["Transaction Code"] = PyInt(0)

\* The classification lists that hold a row of transaction msg_id.
ListsOf(msg_id) == {name \in DOMAIN NoRowsMessage : RowsIn(name, msg_id) # {}}

\* Every message id of the result has one row, in one of the seven lists.
InOneList ==
  \A t \in 1..Len(result.transactions) :
    /\ Cardinality(ListsOf(result.transactions[t].key)) = 1
    /\ \A name \in ListsOf(result.transactions[t].key) :
         Cardinality(RowsIn(name, result.transactions[t].key)) = 1

\* The positions in tcr_list of the records of CP01 lines with sequence 1.
SequenceOneRecords(tcr_list) ==
  {k \in 1..Len(tcr_list) :
     /\ tcr_list[k].application_code = CP01
     /\ tcr_list[k].tcr_sequence = <<"1">>}

\* C38: once the sheets are written, every message id of the result has its
\* row in exactly one of the seven classification lists, and the list of a
\* transaction with several CP01 sequence-1 records is the one of the Card
\* ID of the last of them that carries a Card ID.
C38_PartitionedLastCardDecides ==
  Exported =>
    /\ InOneList
    /\ \A t \in 1..Len(result.transactions) :
         (/\ Cardinality(SequenceOneRecords(result.transactions[t].value)) >= 2
          /\ DecodedCardId(result.transactions[t].value) # None)
           => ListsOf(result.transactions[t].key)
                = {SheetOf(upper(strip(DecodedCardId(result.transactions[t].value).v)))}

\* parse_tc33_line has returned for the line of a one-line file.
LineParsed == pc = "line_parsed"

\* The line has the sequence tag 0 in column 4.
IsZeroSequenceLine(raw_line) == Len(raw_line) >= 4 /\ raw_line[4] = "0"

\* The records parse_tc33_file stored: header, trailer and the records of
\* the buckets.
RecordsStoredIn(r) ==
  (IF r.header = None THEN {} ELSE {r.header})
  \cup (IF r.trailer = None THEN {} ELSE {r.trailer})
  \cup UNION {{r.transactions[t].value[k] : k \in 1..Len(r.transactions[t].value)} :
                t \in 1..Len(r.transactions)}

\* The keys parse_tc33_line adds to the decoded fields.
LineKeys ==
  {"TCR_Type", "TCR_Qualifier", "TCR_Sequence", "Application_Code",
   "TCR_Definition_Name", "Raw_Line"}

\* parse_tc33_line resolved the schema of record and decoded the value of
\* record for every declared field, and no other field.
SameSchemaAndFields(record) ==
  /\ line_parsed_data # None
  /\ StrippedLineDefinition(strip(lines[1])).id = record.schema
  /\ DOMAIN line_parsed_data.v \ LineKeys = DOMAIN record.parsed_fields
  /\ \A n \in DOMAIN record.parsed_fields :
       line_parsed_data.v[n] = record.parsed_fields[n]

\* parse_tc33_line decoded an empty Message Identifier.
EmptyMessageIdentifier ==
  /\ line_parsed_data # None
  /\ "Message Identifier" \in DOMAIN line_parsed_data.v
  /\ line_parsed_data.v["Message Identifier"] = PyStr(<<>>)

\* C39 as stated: for every zero-sequence line, parse_tc33_line returns None
\* exactly when parse_tc33_file stored no record of the one-line file, and
\* otherwise both resolved the same schema and decoded the same values.
C39_HelperAgreesWithFileParser ==
  (LineParsed /\ IsZeroSequenceLine(lines[1])) =>
    /\ (line_parsed_data = None) <=> (RecordsStoredIn(result) = {})
    /\ \A record \in RecordsStoredIn(result) : SameSchemaAndFields(record)

\* C39, amended: for a zero-sequence line that does not begin with
\* whitespace, parse_tc33_file stored no record when parse_tc33_line
\* returned None, parse_tc33_line resolved the same schema and decoded the
\* same values as the record parse_tc33_file stored, and parse_tc33_line
\* returned a dictionary for a line of which nothing was stored exactly when
\* it decoded an empty Message Identifier.
C39_HelperAgreesOnStoredLines ==
  (LineParsed /\ IsZeroSequenceLine(lines[1]) /\ lines[1][1] \notin Whitespace) =>
    /\ line_parsed_data = None => RecordsStoredIn(result) = {}
    /\ \A record \in RecordsStoredIn(result) : SameSchemaAndFields(record)
    /\ line_parsed_data # None
         => (RecordsStoredIn(result) = {} <=> EmptyMessageIdentifier)

\* C39 witness: for the CP02 zero-sequence line of transaction M1 that has
\* 'XYZ' after column 168, both decoded 'XYZ' as Issuer Application Data.
C39_Witness ==
  /\ LineParsed
  /\ lines = <<ljust(ZeroLine(CP02, M1), RecordWidth) \o <<"X", "Y", "Z">> >>
  /\ Keys(result.transactions) = {PyStr(M1)}
  /\ result.transactions[1].value[1].parsed_fields["Issuer Application Data"]
       = PyStr(<<"X", "Y", "Z">>)
  /\ line_parsed_data.v["Issuer Application Data"] = PyStr(<<"X", "Y", "Z">>)
  /\ line_parsed_data.v["Message Identifier"] = PyStr(M1)

====
